---- MODULE Spec2Model ----
(***************************************************************************)
(* HabitCity backend: the safety manager that filters the policy's         *)
(* proposed action through per-user action history (services/safety.py),   *)
(* and the progression records it must leave alone.                        *)
(*                                                                         *)
(* A Python list is an object: `history = self._user_history[user_id]`     *)
(* binds a reference, `history.append` mutates the object in place and     *)
(* `self._user_history[user_id] = history[-10:]` rebinds the key to a new  *)
(* object.  The model keeps that distinction: `lists` is the heap of list  *)
(* objects and `user_history` maps a user to the object currently bound.   *)
(* Confidence is a float in [0,1]; the model carries it in hundredths.     *)
(***************************************************************************)
EXTENDS Integers, Sequences, FiniteSets, TLC

VARIABLES
    user_history,   \* SafetyManager._user_history: user -> list object id
    lists,          \* heap of list objects: id -> sequence of action ids
    pc,             \* per request thread: position inside the call it is running
    loc,            \* per request thread: the locals of the running call
    last,           \* the call that returned most recently, with its result
    log,            \* per user: the finals recorded since the last clear, in recording order
    model_loaded,   \* ModelLoader._model_loaded
    inference_lock, \* ModelLoader._inference_lock: TRUE while it is held
    users,          \* table users: the registered user ids
    habit_buildings,\* table habit_buildings: rows in id order
    habit_logs,     \* table habit_logs: rows in id order
    today,          \* date.today(), as a day number
    resp            \* what the progression call that ran most recently returned

safety_vars == <<user_history, lists, pc, loc, last, log, model_loaded, inference_lock>>

db_vars == <<users, habit_buildings, habit_logs, today, resp>>

vars == <<user_history, lists, pc, loc, last, log, model_loaded, inference_lock,
          users, habit_buildings, habit_logs, today, resp>>

----------------------------------------------------------------------------
(* schemas.py: ActionType *)
SOFT_PENALTY == 0
LOWER_GOAL == 1
COMPENSATE_REWARD == 2
NEUTRAL_WAIT == 3

ActionType == {SOFT_PENALTY, LOWER_GOAL, COMPENSATE_REWARD, NEUTRAL_WAIT}

(* safety.py: SafetyManager.__init__ *)
max_consecutive == 3
history_limit == 10

(* safety.py line 55: `confidence < 0.25`, in hundredths *)
CONFIDENCE_FLOOR == 25

(* progression.py *)
BASE_XP_GAIN == 25

XP_THRESHOLDS == (1 :> 0) @@ (2 :> 100) @@ (3 :> 350) @@ (4 :> 850) @@ (5 :> 1850)

\* XP_MODIFIERS, in tenths: 1.5, 1.0, 1.0, 0.8
XP_MODIFIERS ==
    (COMPENSATE_REWARD :> 15) @@ (NEUTRAL_WAIT :> 10) @@ (LOWER_GOAL :> 10)
    @@ (SOFT_PENALTY :> 8)

(* VALID_HABIT_TYPES: the list of schemas.py, the frozenset of db_models.py.  *)
(* HabitOrder is the order in which initialize_user_city adds the rows; the   *)
(* frozenset fixes none, and nothing below depends on which one it is.        *)
HabitOrder == <<"gym", "study", "sleep", "meditation", "diet">>

VALID_HABIT_TYPES == {HabitOrder[i] : i \in DOMAIN HabitOrder}

\* Optional[T]: None is the empty sequence, a value v is <<v>>
None == <<>>

Some(v) == <<v>>

----------------------------------------------------------------------------
(* Bounds of the model *)
MaxCalls == 5        \* apply calls in the two-user sequential specification
MaxLongCalls == 12   \* apply calls in the one-user long-run specification
MaxConcCalls == 3    \* apply calls in the interleaved specification
MaxAdminCalls == 4   \* apply calls of one user in the administrative specification
MaxAdminXp == 30
MaxFnXp == 60
MaxLevelXp == 1900
MaxDay == 7
MaxInferCalls == 5   \* recorded decisions per user in the inference specification
MaxApiCalls == 2     \* recorded decisions per user in the endpoint specification
MaxApiXp == 60
MaxApiDay == 1
MaxTxXp == 75
MaxPredictCalls == 3
MaxWarmUp == 2
MaxFrameXp == 50
MaxProgXp == 110     \* completions stop once the experience granted in total reaches it

Users == {"u1", "u2"}
Threads == {"t1", "t2"}
Confs == {0, 24, 25}

----------------------------------------------------------------------------
(* Python helpers *)

Min(a, b) == IF a < b THEN a ELSE b

\* s[-n:] for n > 0
LastN(s, n) == SubSeq(s, Len(s) - Min(n, Len(s)) + 1, Len(s))

\* sum(1 for a in s if a == x)
CountEq(s, x) == Cardinality({i \in DOMAIN s : s[i] = x})

\* all(a == x for a in s)
AllEq(s, x) == \A i \in DOMAIN s : s[i] = x

\* a fresh object id: the smallest one not in use
NewId(heap) == CHOOSE i \in 1..(Cardinality(DOMAIN heap) + 1) :
                   /\ i \notin DOMAIN heap
                   /\ \A j \in 1..(i - 1) : j \in DOMAIN heap

\* the safety manager's memory as one value
Mem == [d |-> user_history, h |-> lists]

\* defaultdict(list).__getitem__: a missing key is bound to a new empty list
GetItem(mem, u) ==
    IF u \in DOMAIN mem.d
    THEN [mem |-> mem, ref |-> mem.d[u]]
    ELSE LET id == NewId(mem.h)
         IN  [mem |-> [d |-> mem.d @@ (u :> id), h |-> mem.h @@ (id :> <<>>)],
              ref |-> id]

\* what a reader of self._user_history[u] sees, without creating the key
Hist(mem, u) == IF u \in DOMAIN mem.d THEN mem.h[mem.d[u]] ELSE <<>>

----------------------------------------------------------------------------
(* apply_safety_rules, lines 54-94: the decision taken on the list `history` *)

\* the floor set at 0.20
Rule1_LowerFloor(confidence) == confidence < 20

Rule1(confidence) == confidence < CONFIDENCE_FLOOR

\* only the two entries just before the call are looked at
Rule2_LastTwo(history, proposed_action) ==
    /\ proposed_action = SOFT_PENALTY
    /\ Len(history) >= 2
    /\ AllEq(LastN(history, 2), SOFT_PENALTY)

Rule2(history, proposed_action) ==
    /\ proposed_action = SOFT_PENALTY
    /\ CountEq(LastN(history, 3), SOFT_PENALTY) >= 2

\* the whole window must be rewards
Rule3_AllThree(history, proposed_action) ==
    /\ proposed_action = COMPENSATE_REWARD
    /\ CountEq(LastN(history, 3), COMPENSATE_REWARD) > 2

Rule3(history, proposed_action) ==
    /\ proposed_action = COMPENSATE_REWARD
    /\ CountEq(LastN(history, 3), COMPENSATE_REWARD) >= 2

\* `>` for `>=` in the length test
Rule4_StrictLength(history, proposed_action) ==
    /\ Len(history) > max_consecutive
    /\ AllEq(LastN(history, max_consecutive), proposed_action)

\* the slice forgotten: all(a == proposed_action for a in history)
Rule4_WholeHistory(history, proposed_action) ==
    /\ Len(history) >= max_consecutive
    /\ AllEq(history, proposed_action)

Rule4(history, proposed_action) ==
    /\ Len(history) >= max_consecutive
    /\ AllEq(LastN(history, max_consecutive), proposed_action)

\* the anti-collapse rule tried before the confidence test
Decide_PenaltyFirst(history, proposed_action, confidence) ==
    IF Rule2(history, proposed_action)
    THEN [final |-> NEUTRAL_WAIT, reason |-> "anti_penalty_collapse"]
    ELSE IF Rule1(confidence)
    THEN [final |-> NEUTRAL_WAIT, reason |-> "uncertainty_fallback"]
    ELSE IF Rule3(history, proposed_action)
    THEN [final |-> NEUTRAL_WAIT, reason |-> "anti_reward_spam"]
    ELSE IF Rule4(history, proposed_action)
    THEN [final |-> NEUTRAL_WAIT, reason |-> "max_consecutive_reached"]
    ELSE [final |-> proposed_action, reason |-> "model_decision"]

Decide(history, proposed_action, confidence) ==
    IF Rule1(confidence)
    THEN [final |-> NEUTRAL_WAIT, reason |-> "uncertainty_fallback"]
    ELSE IF Rule2(history, proposed_action)
    THEN [final |-> NEUTRAL_WAIT, reason |-> "anti_penalty_collapse"]
    ELSE IF Rule3(history, proposed_action)
    THEN [final |-> NEUTRAL_WAIT, reason |-> "anti_reward_spam"]
    ELSE IF Rule4(history, proposed_action)
    THEN [final |-> NEUTRAL_WAIT, reason |-> "max_consecutive_reached"]
    ELSE [final |-> proposed_action, reason |-> "model_decision"]

----------------------------------------------------------------------------
(* _record_action, lines 96-102, in its two steps *)

\* lines 98-99: history = self._user_history[user_id]; history.append(action)
RecordAppend(mem, u, action) ==
    LET g == GetItem(mem, u)
    IN  [mem |-> [g.mem EXCEPT !.h[g.ref] = Append(@, action)], ref |-> g.ref]

\* history[:limit] for history[-limit:]
RecordTrim_KeepsOldest(mem, u, ref) ==
    IF Len(mem.h[ref]) > history_limit
    THEN LET id == NewId(mem.h)
         IN  [d |-> [x \in DOMAIN mem.d \cup {u} |-> IF x = u THEN id ELSE mem.d[x]],
              h |-> mem.h @@ (id :> SubSeq(mem.h[ref], 1, history_limit))]
    ELSE mem

\* lines 101-102: if len(history) > limit: self._user_history[user_id] = history[-limit:]
RecordTrim(mem, u, ref) ==
    IF Len(mem.h[ref]) > history_limit
    THEN LET id == NewId(mem.h)
         IN  [d |-> [x \in DOMAIN mem.d \cup {u} |-> IF x = u THEN id ELSE mem.d[x]],
              h |-> mem.h @@ (id :> LastN(mem.h[ref], history_limit))]
    ELSE mem

record_action(mem, u, action) ==
    LET a == RecordAppend(mem, u, action)
    IN  RecordTrim(a.mem, u, a.ref)

\* the proposal recorded where the final action should be
apply_safety_rules_RecordsProposal(mem, u, proposed_action, confidence) ==
    LET g == GetItem(mem, u)
        r == Decide(g.mem.h[g.ref], proposed_action, confidence)
    IN  [mem |-> record_action(g.mem, u, proposed_action),
         final |-> r.final, reason |-> r.reason]

\* apply_safety_rules run from start to end with nothing in between
apply_safety_rules(mem, u, proposed_action, confidence) ==
    LET g == GetItem(mem, u)                                  \* line 52
        r == Decide(g.mem.h[g.ref], proposed_action, confidence)
    IN  [mem |-> record_action(g.mem, u, r.final), final |-> r.final, reason |-> r.reason]

\* self._user_history.clear() for del self._user_history[user_id]
clear_user_history_ClearsAll(mem, u) ==
    IF u \in DOMAIN mem.d
    THEN [mem EXCEPT !.d = <<>>]
    ELSE mem

\* clear_user_history, lines 108-111
clear_user_history(mem, u) ==
    IF u \in DOMAIN mem.d
    THEN [mem EXCEPT !.d = [x \in DOMAIN mem.d \ {u} |-> mem.d[x]]]
    ELSE mem

\* reference counting: a list object nobody refers to is freed
Collect(mem, refs) ==
    LET live == {mem.d[x] : x \in DOMAIN mem.d} \cup refs
    IN  [mem EXCEPT !.h = [i \in DOMAIN mem.h \cap live |-> mem.h[i]]]

----------------------------------------------------------------------------
(* inference.py: the pipeline around the safety manager *)

\* schemas.py lines 23-29
ACTION_TO_CITY_EFFECT ==
    (SOFT_PENALTY :> "add_fog") @@ (LOWER_GOAL :> "simplify_building") @@
    (COMPENSATE_REWARD :> "upgrade_building") @@ (NEUTRAL_WAIT :> "idle")

\* schemas.py lines 31-37
ACTION_DISPLAY_NAMES ==
    (SOFT_PENALTY :> "GENTLE_RESET") @@ (LOWER_GOAL :> "EASIER_DAY") @@
    (COMPENSATE_REWARD :> "REWARD_BOOST") @@ (NEUTRAL_WAIT :> "STEADY_PROGRESS")

\* _create_fallback_response, lines 90-99
create_fallback_response ==
    [action |-> ACTION_DISPLAY_NAMES[NEUTRAL_WAIT], action_id |-> NEUTRAL_WAIT,
     explanation |-> <<"fallback">>, city_effect |-> ACTION_TO_CITY_EFFECT[NEUTRAL_WAIT],
     confidence |-> None]

\* lines 66-70: a template of the final action for a model decision, the
\* sentence of the rule that fired otherwise
Explanation(final_action, reason) ==
    IF reason = "model_decision" THEN <<"template", final_action>> ELSE <<"safety", reason>>

\* the response built at lines 72-83
PipelineResponse(final_action, reason, confidence) ==
    [action |-> ACTION_DISPLAY_NAMES[final_action], action_id |-> final_action,
     explanation |-> Explanation(final_action, reason),
     city_effect |-> ACTION_TO_CITY_EFFECT[final_action],
     confidence |-> Some(confidence)]

\* where a call of run_inference may fail: nowhere, inside predict (line 57),
\* or in a step after the safety rules returned (lines 66-83)
Faults == {"none", "predict", "later"}

\* run_inference whose try block ends after predict
run_inference_NoCatch(mem, loaded, user_id, fault, proposed_action, confidence) ==
    IF ~loaded \/ fault = "predict"
    THEN [mem |-> mem, ran |-> FALSE, raised |-> FALSE, response |-> create_fallback_response]
    ELSE LET r == apply_safety_rules(mem, user_id, proposed_action, confidence)
         IN  IF fault = "later"
             THEN [mem |-> r.mem, ran |-> TRUE, raised |-> TRUE,
                   final |-> r.final, reason |-> r.reason,
                   response |-> create_fallback_response]
             ELSE [mem |-> r.mem, ran |-> TRUE, raised |-> FALSE,
                   final |-> r.final, reason |-> r.reason,
                   response |-> PipelineResponse(r.final, r.reason, confidence)]

\* run_inference that names the response after the proposal of the model
run_inference_LabelsProposal(mem, loaded, user_id, fault, proposed_action, confidence) ==
    IF ~loaded \/ fault = "predict"
    THEN [mem |-> mem, ran |-> FALSE, raised |-> FALSE, response |-> create_fallback_response]
    ELSE LET r == apply_safety_rules(mem, user_id, proposed_action, confidence)
         IN  [mem |-> r.mem, ran |-> TRUE, raised |-> FALSE,
              final |-> r.final, reason |-> r.reason,
              response |-> IF fault = "later" THEN create_fallback_response
                           ELSE [PipelineResponse(r.final, r.reason, confidence) EXCEPT
                                    !.action = ACTION_DISPLAY_NAMES[proposed_action],
                                    !.city_effect = ACTION_TO_CITY_EFFECT[proposed_action]]]

\* run_inference that records the fallback action in the history of the user
run_inference_RecordsFallback(mem, loaded, user_id, fault, proposed_action, confidence) ==
    IF ~loaded \/ fault = "predict"
    THEN [mem |-> record_action(mem, user_id, NEUTRAL_WAIT), ran |-> FALSE,
          raised |-> FALSE, response |-> create_fallback_response]
    ELSE LET r == apply_safety_rules(mem, user_id, proposed_action, confidence)
         IN  [mem |-> r.mem, ran |-> TRUE, raised |-> FALSE,
              final |-> r.final, reason |-> r.reason,
              response |-> IF fault = "later" THEN create_fallback_response
                           ELSE PipelineResponse(r.final, r.reason, confidence)]

\* run_inference, lines 29-87.  ran: the safety rules were applied (and the
\* history written); raised: an exception left the function.
run_inference(mem, loaded, user_id, fault, proposed_action, confidence) ==
    IF ~loaded \/ fault = "predict"
    THEN [mem |-> mem, ran |-> FALSE, raised |-> FALSE, response |-> create_fallback_response]
    ELSE LET r == apply_safety_rules(mem, user_id, proposed_action, confidence)
         IN  [mem |-> r.mem, ran |-> TRUE, raised |-> FALSE,
              final |-> r.final, reason |-> r.reason,
              response |-> IF fault = "later" THEN create_fallback_response
                           ELSE PipelineResponse(r.final, r.reason, confidence)]

----------------------------------------------------------------------------
(* progression.py on the database [users, buildings, logs] *)

DB == [users |-> users, buildings |-> habit_buildings, logs |-> habit_logs]

\* query(...).filter(...).first(): the index of the first matching row, 0 for None
FirstBuilding(db, user_id, habit_type) ==
    LET hit == {i \in DOMAIN db.buildings :
                   /\ db.buildings[i].user_id = user_id
                   /\ db.buildings[i].habit_type = habit_type}
    IN  IF hit = {} THEN 0 ELSE CHOOSE i \in hit : \A j \in hit : i <= j

FirstLog(db, user_id, habit_type, day) ==
    LET hit == {i \in DOMAIN db.logs :
                   /\ db.logs[i].user_id = user_id
                   /\ db.logs[i].habit_type = habit_type
                   /\ db.logs[i].date = day}
    IN  IF hit = {} THEN 0 ELSE CHOOSE i \in hit : \A j \in hit : i <= j

NewBuilding(user_id, habit_type) ==
    [user_id |-> user_id, habit_type |-> habit_type, xp |-> 0, level |-> 1,
     decay_days |-> 0, last_completed_date |-> None]

\* initialize_user_city, lines 42-76
initialize_user_city(db, user_id) ==
    [db EXCEPT !.buildings =
        @ \o [i \in DOMAIN HabitOrder |-> NewBuilding(user_id, HabitOrder[i])]]

\* calculate_xp_gain without the floor of 1
calculate_xp_gain_NoFloor(habit_type, rl_action, base_xp) ==
    LET truthy == rl_action # None /\ rl_action[1] # 0
        modifier == IF truthy /\ rl_action[1] \in DOMAIN XP_MODIFIERS
                    THEN XP_MODIFIERS[rl_action[1]]
                    ELSE 10
    IN  (base_xp * modifier) \div 10

\* calculate_xp_gain, lines 93-118.  `if rl_action and ...` is false for None
\* and for the action whose integer value is 0.
calculate_xp_gain(habit_type, rl_action, base_xp) ==
    LET truthy == rl_action # None /\ rl_action[1] # 0
        modifier == IF truthy /\ rl_action[1] \in DOMAIN XP_MODIFIERS
                    THEN XP_MODIFIERS[rl_action[1]]
                    ELSE 10
        xp_gain == (base_xp * modifier) \div 10
    IN  IF xp_gain < 1 THEN 1 ELSE xp_gain

\* check_level_up that asks for more than the threshold
check_level_up_Strict(building) ==
    IF building.level >= 5
    THEN FALSE
    ELSE building.xp > XP_THRESHOLDS[building.level + 1]

\* check_level_up, lines 121-141
check_level_up(building) ==
    IF building.level >= 5
    THEN FALSE
    ELSE building.xp >= XP_THRESHOLDS[building.level + 1]

\* an `if` in the place of the `while`: one promotion per call at most
LevelLoop_Once(building) ==
    IF check_level_up(building) /\ building.level < 5
    THEN [building EXCEPT !.level = @ + 1]
    ELSE building

\* the while loop of apply_xp_and_level, lines 164-167
RECURSIVE LevelLoop(_)
LevelLoop(building) ==
    IF check_level_up(building) /\ building.level < 5
    THEN LevelLoop([building EXCEPT !.level = @ + 1])
    ELSE building

\* apply_xp_and_level that sets the completion date and leaves decay_days
apply_xp_and_level_KeepsDecay(db, i, xp_delta, day) ==
    LET old == db.buildings[i]
        up == LevelLoop([old EXCEPT !.xp = @ + xp_delta])
        new == [up EXCEPT !.last_completed_date = Some(day)]
    IN  [db |-> [db EXCEPT !.buildings[i] = new],
         xp_delta |-> xp_delta, new_xp |-> new.xp, level_up |-> new.level # old.level,
         old_level |-> old.level, new_level |-> new.level]

\* apply_xp_and_level, lines 144-181, on row i
apply_xp_and_level(db, i, xp_delta, day) ==
    LET old == db.buildings[i]
        up == LevelLoop([old EXCEPT !.xp = @ + xp_delta])
        new == [up EXCEPT !.decay_days = 0, !.last_completed_date = Some(day)]
    IN  [db |-> [db EXCEPT !.buildings[i] = new],
         xp_delta |-> xp_delta, new_xp |-> new.xp, level_up |-> new.level # old.level,
         old_level |-> old.level, new_level |-> new.level]

\* calculate_decay that counts the day after the completion as a missed day
calculate_decay_NoGrace(building, day) ==
    IF building.last_completed_date = None
    THEN 0
    ELSE LET days_since == day - building.last_completed_date[1]
         IN  IF days_since <= 0 THEN 0 ELSE Min(days_since, 5)

\* calculate_decay, lines 184-207
calculate_decay(building, day) ==
    IF building.last_completed_date = None
    THEN 0
    ELSE LET days_since == day - building.last_completed_date[1]
         IN  IF days_since <= 0 THEN 0
             ELSE IF days_since = 1 THEN 0
             ELSE Min(days_since - 1, 5)

\* calculate_decay that stores what it computed in the record
calculate_decay_call_Stores(building, day) ==
    [building |-> [building EXCEPT !.decay_days = calculate_decay(building, day)],
     value |-> calculate_decay(building, day)]

\* a call calculate_decay(building, day) as the caller sees it: the record
\* object it passed, after the call, and the returned value.  Lines 184-207
\* assign to no attribute of building.
calculate_decay_call(building, day) ==
    [building |-> building, value |-> calculate_decay(building, day)]

\* HabitBuilding.visual_state, db_models.py lines 83-100
visual_state(building) ==
    IF building.decay_days = 0 THEN "normal"
    ELSE IF building.decay_days = 1 THEN "smoke"
    ELSE IF building.decay_days = 2 THEN "small_fire"
    ELSE IF building.decay_days = 3 THEN "medium_fire"
    ELSE "large_fire"

\* apply_daily_decay that adds a day of decay per call instead of recomputing
apply_daily_decay_Ticks(db, user_id, day) ==
    LET mine == {i \in DOMAIN db.buildings : db.buildings[i].user_id = user_id}
        tick(b) == IF b.last_completed_date = None
                      \/ day - b.last_completed_date[1] <= 1
                   THEN 0
                   ELSE Min(b.decay_days + 1, 5)
        changed == {i \in mine : tick(db.buildings[i]) # db.buildings[i].decay_days}
    IN  [db |-> [db EXCEPT !.buildings =
                    [i \in DOMAIN db.buildings |->
                        IF i \in changed
                        THEN [db.buildings[i] EXCEPT !.decay_days = tick(db.buildings[i])]
                        ELSE db.buildings[i]]],
         updates |-> {[habit_type |-> db.buildings[i].habit_type,
                       old_decay |-> db.buildings[i].decay_days,
                       new_decay |-> tick(db.buildings[i])] : i \in changed}]

\* apply_daily_decay that reports every record it looked at
apply_daily_decay_ReportsAll(db, user_id, day) ==
    LET mine == {i \in DOMAIN db.buildings : db.buildings[i].user_id = user_id}
    IN  [db |-> [db EXCEPT !.buildings =
                    [i \in DOMAIN db.buildings |->
                        IF i \in mine
                        THEN [db.buildings[i] EXCEPT
                                 !.decay_days = calculate_decay(db.buildings[i], day)]
                        ELSE db.buildings[i]]],
         updates |-> {[habit_type |-> db.buildings[i].habit_type,
                       old_decay |-> db.buildings[i].decay_days,
                       new_decay |-> calculate_decay(db.buildings[i], day)] : i \in mine}]

\* apply_daily_decay over the records of all users
apply_daily_decay_AllUsers(db, user_id, day) ==
    LET mine == {i \in DOMAIN db.buildings : db.buildings[i].user_id = user_id}
        changed == {i \in DOMAIN db.buildings :
                       calculate_decay(db.buildings[i], day) # db.buildings[i].decay_days}
    IN  [db |-> [db EXCEPT !.buildings =
                    [i \in DOMAIN db.buildings |->
                        IF i \in changed
                        THEN [db.buildings[i] EXCEPT
                                 !.decay_days = calculate_decay(db.buildings[i], day)]
                        ELSE db.buildings[i]]],
         updates |-> {[habit_type |-> db.buildings[i].habit_type,
                       old_decay |-> db.buildings[i].decay_days,
                       new_decay |-> calculate_decay(db.buildings[i], day)] :
                          i \in changed \cap mine}]

\* apply_daily_decay, lines 210-248
apply_daily_decay(db, user_id, day) ==
    LET mine == {i \in DOMAIN db.buildings : db.buildings[i].user_id = user_id}
        changed == {i \in mine :
                       calculate_decay(db.buildings[i], day) # db.buildings[i].decay_days}
    IN  [db |-> [db EXCEPT !.buildings =
                    [i \in DOMAIN db.buildings |->
                        IF i \in changed
                        THEN [db.buildings[i] EXCEPT
                                 !.decay_days = calculate_decay(db.buildings[i], day)]
                        ELSE db.buildings[i]]],
         updates |-> {[habit_type |-> db.buildings[i].habit_type,
                       old_decay |-> db.buildings[i].decay_days,
                       new_decay |-> calculate_decay(db.buildings[i], day)] : i \in changed}]

\* complete_habit that builds the record it does not find
complete_habit_CreatesBuilding(db, user_id, habit_type, rl_action, day) ==
    IF habit_type \notin VALID_HABIT_TYPES
    THEN [db |-> db, error |-> "invalid_habit_type"]
    ELSE LET had == FirstBuilding(db, user_id, habit_type) # 0
             db1 == IF had THEN db
                    ELSE [db EXCEPT !.buildings = Append(@, NewBuilding(user_id, habit_type))]
             b == FirstBuilding(db1, user_id, habit_type)
             l == FirstLog(db1, user_id, habit_type, day)
             logged == IF l # 0
                       THEN [db1 EXCEPT !.logs[l].completed = TRUE]
                       ELSE [db1 EXCEPT !.logs = Append(@,
                                [user_id |-> user_id, habit_type |-> habit_type,
                                 date |-> day, completed |-> TRUE])]
             result == apply_xp_and_level(logged, b,
                           calculate_xp_gain(habit_type, rl_action, BASE_XP_GAIN), day)
         IN  [db |-> result.db, error |-> IF had THEN "" ELSE "building_not_found",
              habit_type |-> habit_type,
              xp |-> result.db.buildings[b].xp,
              xp_delta |-> result.xp_delta,
              level |-> result.db.buildings[b].level,
              level_up |-> result.level_up,
              old_level |-> result.old_level,
              decay_days |-> result.db.buildings[b].decay_days,
              visual_state |-> visual_state(result.db.buildings[b])]

\* complete_habit with one ValueError text for both failures
complete_habit_SameError(db, user_id, habit_type, rl_action, day) ==
    IF habit_type \notin VALID_HABIT_TYPES \/ FirstBuilding(db, user_id, habit_type) = 0
    THEN [db |-> db, error |-> "invalid_habit_type"]
    ELSE LET b == FirstBuilding(db, user_id, habit_type)
             l == FirstLog(db, user_id, habit_type, day)
             logged == IF l # 0
                       THEN [db EXCEPT !.logs[l].completed = TRUE]
                       ELSE [db EXCEPT !.logs = Append(@,
                                [user_id |-> user_id, habit_type |-> habit_type,
                                 date |-> day, completed |-> TRUE])]
             result == apply_xp_and_level(logged, b,
                           calculate_xp_gain(habit_type, rl_action, BASE_XP_GAIN), day)
         IN  [db |-> result.db, error |-> "",
              habit_type |-> habit_type,
              xp |-> result.db.buildings[b].xp,
              xp_delta |-> result.xp_delta,
              level |-> result.db.buildings[b].level,
              level_up |-> result.level_up,
              old_level |-> result.old_level,
              decay_days |-> result.db.buildings[b].decay_days,
              visual_state |-> visual_state(result.db.buildings[b])]

\* complete_habit that adds a log entry at every completion
complete_habit_AlwaysInserts(db, user_id, habit_type, rl_action, day) ==
    IF habit_type \notin VALID_HABIT_TYPES
    THEN [db |-> db, error |-> "invalid_habit_type"]
    ELSE LET b == FirstBuilding(db, user_id, habit_type)
         IN  IF b = 0
             THEN [db |-> db, error |-> "building_not_found"]
             ELSE LET l == FirstLog(db, user_id, habit_type, day)
                      logged == IF FALSE
                                THEN [db EXCEPT !.logs[l].completed = TRUE]
                                ELSE [db EXCEPT !.logs = Append(@,
                                         [user_id |-> user_id, habit_type |-> habit_type,
                                          date |-> day, completed |-> TRUE])]
                      xp_gain == calculate_xp_gain(habit_type, rl_action, BASE_XP_GAIN)
                      result == apply_xp_and_level(logged, b, xp_gain, day)
                  IN  [db |-> result.db, error |-> "",
                       habit_type |-> habit_type,
                       xp |-> result.db.buildings[b].xp,
                       xp_delta |-> result.xp_delta,
                       level |-> result.db.buildings[b].level,
                       level_up |-> result.level_up,
                       old_level |-> result.old_level,
                       decay_days |-> result.db.buildings[b].decay_days,
                       visual_state |-> visual_state(result.db.buildings[b])]

\* complete_habit, lines 251-320
complete_habit(db, user_id, habit_type, rl_action, day) ==
    IF habit_type \notin VALID_HABIT_TYPES
    THEN [db |-> db, error |-> "invalid_habit_type"]
    ELSE LET b == FirstBuilding(db, user_id, habit_type)
         IN  IF b = 0
             THEN [db |-> db, error |-> "building_not_found"]
             ELSE LET l == FirstLog(db, user_id, habit_type, day)
                      logged == IF l # 0
                                THEN [db EXCEPT !.logs[l].completed = TRUE]
                                ELSE [db EXCEPT !.logs = Append(@,
                                         [user_id |-> user_id, habit_type |-> habit_type,
                                          date |-> day, completed |-> TRUE])]
                      xp_gain == calculate_xp_gain(habit_type, rl_action, BASE_XP_GAIN)
                      result == apply_xp_and_level(logged, b, xp_gain, day)
                  IN  [db |-> result.db, error |-> "",
                       habit_type |-> habit_type,
                       xp |-> result.db.buildings[b].xp,
                       xp_delta |-> result.xp_delta,
                       level |-> result.db.buildings[b].level,
                       level_up |-> result.level_up,
                       old_level |-> result.old_level,
                       decay_days |-> result.db.buildings[b].decay_days,
                       visual_state |-> visual_state(result.db.buildings[b])]

\* get_city_state, lines 323-349
get_city_state(db, user_id) ==
    LET mine == {i \in DOMAIN db.buildings : db.buildings[i].user_id = user_id}
    IN  {[habit_type |-> db.buildings[i].habit_type, xp |-> db.buildings[i].xp,
          level |-> db.buildings[i].level, decay_days |-> db.buildings[i].decay_days,
          visual_state |-> visual_state(db.buildings[i]),
          last_completed |-> db.buildings[i].last_completed_date] : i \in mine}

\* register_user that builds the city anew for a user it already knows
register_user_Resets(db, uid, day) ==
    LET fresh == [db EXCEPT !.buildings =
                     [i \in DOMAIN db.buildings |->
                         IF db.buildings[i].user_id = uid
                         THEN NewBuilding(uid, db.buildings[i].habit_type)
                         ELSE db.buildings[i]]]
    IN  IF uid \in db.users
        THEN [db |-> fresh, city_state |-> get_city_state(fresh, uid),
              is_new_user |-> FALSE]
        ELSE LET created == initialize_user_city([db EXCEPT !.users = @ \cup {uid}], uid)
             IN  [db |-> created, city_state |-> get_city_state(created, uid),
                  is_new_user |-> TRUE]

\* register_user, routes.py lines 140-195
register_user(db, uid, day) ==
    IF uid \in db.users
    THEN [db |-> apply_daily_decay(db, uid, day).db,
          city_state |-> get_city_state(db, uid), is_new_user |-> FALSE]
    ELSE LET created == initialize_user_city([db EXCEPT !.users = @ \cup {uid}], uid)
         IN  [db |-> created, city_state |-> get_city_state(created, uid),
              is_new_user |-> TRUE]

----------------------------------------------------------------------------
(* routes.py: POST /complete-habit *)

\* complete_habit whose log entry is committed on its own before the record
\* is updated
complete_habit_request_TwoCommits(db, user_id, habit_type, rl_action, day, commit_ok) ==
    LET r == complete_habit(db, user_id, habit_type, rl_action, day)
    IN  IF r.error # "" \/ commit_ok THEN r
        ELSE [db |-> [db EXCEPT !.logs = r.db.logs], error |-> "commit_failed"]

\* complete_habit inside the session of a request: the one db.commit() of
\* line 173 writes the log entry and the record together; when it raises,
\* get_db closes the session (database.py lines 36-40) and nothing is kept
complete_habit_request(db, user_id, habit_type, rl_action, day, commit_ok) ==
    LET r == complete_habit(db, user_id, habit_type, rl_action, day)
    IN  IF r.error # "" \/ commit_ok THEN r
        ELSE [db |-> db, error |-> "commit_failed"]

\* the handler validating the habit type after the inference
complete_habit_endpoint_LateValidation(db, mem, loaded, uid, habit_type, fault, p, c, day, commit_ok) ==
    IF uid \notin db.users
    THEN [db |-> db, mem |-> mem, ran |-> FALSE, status |-> 404,
          detail |-> "user_not_found", body |-> None]
    ELSE LET rl == run_inference(mem, loaded, uid, fault, p, c)
             done == complete_habit_request(db, uid, habit_type,
                                            Some(rl.response.action_id), day, commit_ok)
         IN  IF habit_type \notin VALID_HABIT_TYPES
             THEN [db |-> db, mem |-> rl.mem, ran |-> rl.ran, status |-> 400,
                   detail |-> "invalid_habit_type_must_be_one_of", body |-> None]
             ELSE IF done.error = "commit_failed"
             THEN [db |-> done.db, mem |-> rl.mem, ran |-> rl.ran, status |-> 500,
                   detail |-> done.error, body |-> None]
             ELSE IF done.error # ""
             THEN [db |-> done.db, mem |-> rl.mem, ran |-> rl.ran, status |-> 400,
                   detail |-> done.error, body |-> None]
             ELSE [db |-> done.db, mem |-> rl.mem, ran |-> rl.ran, status |-> 200,
                   detail |-> "",
                   body |-> Some([action |-> rl.response.action,
                                  action_id |-> rl.response.action_id,
                                  explanation |-> rl.response.explanation,
                                  city_effect |-> rl.response.city_effect,
                                  building_update |-> [done EXCEPT !.db = {}]])]

\* the handler keying the experience modifier by the proposal of the model
complete_habit_endpoint_RawProposal(db, mem, loaded, uid, habit_type, fault, p, c, day, commit_ok) ==
    IF uid \notin db.users
    THEN [db |-> db, mem |-> mem, ran |-> FALSE, status |-> 404,
          detail |-> "user_not_found", body |-> None]
    ELSE IF habit_type \notin VALID_HABIT_TYPES
    THEN [db |-> db, mem |-> mem, ran |-> FALSE, status |-> 400,
          detail |-> "invalid_habit_type_must_be_one_of", body |-> None]
    ELSE LET rl == run_inference(mem, loaded, uid, fault, p, c)
             done == complete_habit_request(db, uid, habit_type,
                                            Some(p), day, commit_ok)
         IN  IF done.error = "commit_failed"
             THEN [db |-> done.db, mem |-> rl.mem, ran |-> rl.ran, status |-> 500,
                   detail |-> done.error, body |-> None]
             ELSE IF done.error # ""
             THEN [db |-> done.db, mem |-> rl.mem, ran |-> rl.ran, status |-> 400,
                   detail |-> done.error, body |-> None]
             ELSE [db |-> done.db, mem |-> rl.mem, ran |-> rl.ran, status |-> 200,
                   detail |-> "",
                   body |-> Some([action |-> rl.response.action,
                                  action_id |-> rl.response.action_id,
                                  explanation |-> rl.response.explanation,
                                  city_effect |-> rl.response.city_effect,
                                  building_update |-> [done EXCEPT !.db = {}]])]

\* get_current_user (dependencies.py lines 18-70) and complete_habit_endpoint
\* (routes.py lines 219-286) for the token of uid
complete_habit_endpoint(db, mem, loaded, uid, habit_type, fault, p, c, day, commit_ok) ==
    IF uid \notin db.users
    THEN [db |-> db, mem |-> mem, ran |-> FALSE, status |-> 404,
          detail |-> "user_not_found", body |-> None]
    ELSE IF habit_type \notin VALID_HABIT_TYPES
    THEN [db |-> db, mem |-> mem, ran |-> FALSE, status |-> 400,
          detail |-> "invalid_habit_type_must_be_one_of", body |-> None]
    ELSE LET rl == run_inference(mem, loaded, uid, fault, p, c)
             done == complete_habit_request(db, uid, habit_type,
                                            Some(rl.response.action_id), day, commit_ok)
         IN  IF done.error = "commit_failed"
             THEN [db |-> done.db, mem |-> rl.mem, ran |-> rl.ran, status |-> 500,
                   detail |-> done.error, body |-> None]
             ELSE IF done.error # ""
             THEN [db |-> done.db, mem |-> rl.mem, ran |-> rl.ran, status |-> 400,
                   detail |-> done.error, body |-> None]
             ELSE [db |-> done.db, mem |-> rl.mem, ran |-> rl.ran, status |-> 200,
                   detail |-> "",
                   body |-> Some([action |-> rl.response.action,
                                  action_id |-> rl.response.action_id,
                                  explanation |-> rl.response.explanation,
                                  city_effect |-> rl.response.city_effect,
                                  building_update |-> [done EXCEPT !.db = {}]])]

----------------------------------------------------------------------------
(* State *)

NoLocals == [user |-> "", proposed |-> NEUTRAL_WAIT, conf |-> 0, history |-> 0,
             seen |-> <<>>, final |-> NEUTRAL_WAIT, reason |-> "", rec |-> 0]

NoCall == [op |-> "none", user |-> "", proposed |-> NEUTRAL_WAIT, conf |-> 0,
           pre |-> <<>>, final |-> NEUTRAL_WAIT, reason |-> ""]

\* the list objects the running calls hold
HeldRefs(l) == UNION {{l[t].history, l[t].rec} : t \in Threads} \ {0}

Init ==
    /\ user_history = <<>>
    /\ lists = <<>>
    /\ pc = [t \in Threads |-> "idle"]
    /\ loc = [t \in Threads |-> NoLocals]
    /\ last = NoCall
    /\ log = [u \in Users |-> <<>>]
    /\ model_loaded = FALSE
    /\ inference_lock = FALSE
    /\ users = {}
    /\ habit_buildings = <<>>
    /\ habit_logs = <<>>
    /\ today = 0
    /\ resp = [op |-> "none"]

Idle == \A t \in Threads : pc[t] = "idle"

\* one whole apply_safety_rules(u, p, c) call, uninterrupted
Apply(u, p, c) ==
    /\ Idle
    /\ \E r \in {apply_safety_rules(Mem, u, p, c)} :
       \E m \in {Collect(r.mem, {})} :
           /\ user_history' = m.d
           /\ lists' = m.h
           /\ last' = [op |-> "apply", user |-> u, proposed |-> p, conf |-> c,
                       pre |-> Hist(Mem, u), final |-> r.final, reason |-> r.reason]
           /\ log' = [log EXCEPT ![u] = Append(@, r.final)]
    /\ UNCHANGED <<pc, loc>>
    /\ UNCHANGED <<db_vars, model_loaded, inference_lock>>

\* one clear_user_history(u) call
Clear(u) ==
    /\ \E m \in {Collect(clear_user_history(Mem, u), HeldRefs(loc))} :
           /\ user_history' = m.d
           /\ lists' = m.h
    /\ last' = [NoCall EXCEPT !.op = "clear", !.user = u, !.pre = Hist(Mem, u)]
    /\ log' = [log EXCEPT ![u] = <<>>]
    /\ UNCHANGED <<pc, loc>>
    /\ UNCHANGED <<db_vars, model_loaded, inference_lock>>

\* the calls a user may make between two clears
CallBound(u) == IF u = "u1" THEN MaxCalls ELSE 1

ApplyStep ==
    \E u \in Users, p \in ActionType, c \in Confs :
        Len(log[u]) < CallBound(u) /\ Apply(u, p, c)

ClearStep == \E u \in Users : Clear(u)

Next ==
    \/ ApplyStep
    \/ ClearStep

Spec == Init /\ [][Next]_vars

----------------------------------------------------------------------------
(* One user, many calls: the history reaches its limit and is trimmed.     *)
(* The proposals are narrowed to two action ids to keep the run finite in  *)
(* reasonable time; the recorded finals still differ from call to call.    *)

LongProposals == {LOWER_GOAL, NEUTRAL_WAIT}
LongConfs == {24, 25}

LongApplyStep ==
    \E p \in LongProposals, c \in LongConfs :
        Len(log["u1"]) < MaxLongCalls /\ Apply("u1", p, c)

NextLong == LongApplyStep

SpecLong == Init /\ [][NextLong]_vars

----------------------------------------------------------------------------
(* Request threads running apply_safety_rules for the same user, switched  *)
(* between its steps: read the history (line 52), evaluate the rules       *)
(* (54-94), append (98-99), trim and rebind (101-102).                     *)

\* the history after ten low-confidence calls
FullHistory == [i \in 1..history_limit |-> NEUTRAL_WAIT]

InitConc ==
    /\ user_history = ("u1" :> 1)
    /\ lists = (1 :> FullHistory)
    /\ pc = [t \in Threads |-> "idle"]
    /\ loc = [t \in Threads |-> NoLocals]
    /\ last = NoCall
    /\ log = [u \in Users |-> IF u = "u1" THEN FullHistory ELSE <<>>]
    /\ model_loaded = FALSE
    /\ inference_lock = FALSE
    /\ users = {}
    /\ habit_buildings = <<>>
    /\ habit_logs = <<>>
    /\ today = 0
    /\ resp = [op |-> "none"]

\* calls started and not yet recorded
Unrecorded == Cardinality({t \in Threads : pc[t] \in {"rules", "append"}})

\* line 52: history = self._user_history[user_id]
Call(t, u, p, c) ==
    /\ pc[t] = "idle"
    /\ \E g \in {GetItem(Mem, u)} :
           /\ user_history' = g.mem.d
           /\ lists' = g.mem.h
           /\ loc' = [loc EXCEPT ![t] = [NoLocals EXCEPT !.user = u, !.proposed = p,
                                                         !.conf = c, !.history = g.ref]]
    /\ pc' = [pc EXCEPT ![t] = "rules"]
    /\ UNCHANGED <<last, log>>
    /\ UNCHANGED <<db_vars, model_loaded, inference_lock>>

\* lines 54-94 up to the call of _record_action
Rules(t) ==
    /\ pc[t] = "rules"
    /\ \E r \in {Decide(lists[loc[t].history], loc[t].proposed, loc[t].conf)} :
           loc' = [loc EXCEPT ![t].seen = lists[loc[t].history],
                              ![t].final = r.final, ![t].reason = r.reason]
    /\ pc' = [pc EXCEPT ![t] = "append"]
    /\ UNCHANGED <<user_history, lists, last, log>>
    /\ UNCHANGED <<db_vars, model_loaded, inference_lock>>

\* _record_action lines 98-99
AppendStep(t) ==
    /\ pc[t] = "append"
    /\ \E a \in {RecordAppend(Mem, loc[t].user, loc[t].final)} :
           /\ user_history' = a.mem.d
           /\ lists' = a.mem.h
           /\ loc' = [loc EXCEPT ![t].rec = a.ref]
    /\ log' = [log EXCEPT ![loc[t].user] = Append(@, loc[t].final)]
    /\ pc' = [pc EXCEPT ![t] = "trim"]
    /\ UNCHANGED last
    /\ UNCHANGED <<db_vars, model_loaded, inference_lock>>

\* _record_action lines 101-102, and the return of apply_safety_rules
TrimStep(t) ==
    /\ pc[t] = "trim"
    /\ loc' = [loc EXCEPT ![t] = NoLocals]
    /\ \E m \in {Collect(RecordTrim(Mem, loc[t].user, loc[t].rec), HeldRefs(loc'))} :
           /\ user_history' = m.d
           /\ lists' = m.h
    /\ last' = [op |-> "apply", user |-> loc[t].user, proposed |-> loc[t].proposed,
                conf |-> loc[t].conf, pre |-> loc[t].seen,
                final |-> loc[t].final, reason |-> loc[t].reason]
    /\ pc' = [pc EXCEPT ![t] = "idle"]
    /\ UNCHANGED log
    /\ UNCHANGED <<db_vars, model_loaded, inference_lock>>

CallAny ==
    \E t \in Threads, p \in ActionType, c \in Confs :
        /\ Len(log["u1"]) + Unrecorded < history_limit + MaxConcCalls
        /\ Call(t, "u1", p, c)

RulesAny == \E t \in Threads : Rules(t)

AppendAny == \E t \in Threads : AppendStep(t)

TrimAny == \E t \in Threads : TrimStep(t)

NextConc ==
    \/ CallAny
    \/ RulesAny
    \/ AppendAny
    \/ TrimAny

SpecConc == InitConc /\ [][NextConc]_vars

----------------------------------------------------------------------------
(* The safety manager next to the progression records: registrations and   *)
(* completions change the database while histories are recorded and        *)
(* cleared.                                                                *)

\* register_user for the authenticated uid
Register(u) ==
    /\ \E r \in {register_user(DB, u, today)} :
           /\ users' = r.db.users
           /\ habit_buildings' = r.db.buildings
           /\ habit_logs' = r.db.logs
           /\ resp' = [op |-> "register", user |-> u, day |-> today,
                       is_new_user |-> r.is_new_user, city_state |-> r.city_state]
    /\ UNCHANGED today
    /\ UNCHANGED safety_vars

\* complete_habit(db, u, h, a); a ValueError leaves the database as it was
CompleteHabit(u, h, a) ==
    /\ \E r \in {complete_habit(DB, u, h, a, today)} :
           /\ users' = r.db.users
           /\ habit_buildings' = r.db.buildings
           /\ habit_logs' = r.db.logs
           /\ resp' = [op |-> "complete", user |-> u, habit_type |-> h,
                       rl_action |-> a, day |-> today,
                       before |-> IF FirstBuilding(DB, u, h) = 0 THEN None
                                  ELSE Some(habit_buildings[FirstBuilding(DB, u, h)]),
                       result |-> [r EXCEPT !.db = {}]]
    /\ UNCHANGED today
    /\ UNCHANGED safety_vars

RECURSIVE SumXp(_)
SumXp(rows) == IF rows = <<>> THEN 0 ELSE Head(rows).xp + SumXp(Tail(rows))

AdminProposals == {SOFT_PENALTY, LOWER_GOAL}
AdminConfs == {25}
AdminHabits == {"gym"}
AdminModifiers == {None, Some(COMPENSATE_REWARD)}

AdminCallBound(u) == IF u = "u1" THEN MaxAdminCalls ELSE 1

AdminApplyStep ==
    \E u \in Users, p \in AdminProposals, c \in AdminConfs :
        Len(log[u]) < AdminCallBound(u) /\ Apply(u, p, c)

RegisterStep == \E u \in Users : Register(u)

CompleteStep ==
    \E u \in Users, h \in AdminHabits, a \in AdminModifiers :
        SumXp(habit_buildings) < MaxAdminXp /\ CompleteHabit(u, h, a)

NextAdmin ==
    \/ AdminApplyStep
    \/ ClearStep
    \/ RegisterStep
    \/ CompleteStep

SpecAdmin == Init /\ [][NextAdmin]_vars

----------------------------------------------------------------------------
(* The functions of progression.py called with arguments of the caller's   *)
(* choice, on the records a registered user has after a few completions.   *)

db_tables == <<users, habit_buildings, habit_logs>>

\* calculate_xp_gain(h, a, base)
XpGain(h, a, base) ==
    /\ resp' = [op |-> "calculate_xp_gain", habit_type |-> h, rl_action |-> a,
                base_xp |-> base, result |-> calculate_xp_gain(h, a, base)]
    /\ UNCHANGED <<db_tables, today>>
    /\ UNCHANGED safety_vars

\* calculate_decay(building, d) on the record of row i
Decay(i, d) ==
    /\ \E r \in {calculate_decay_call(habit_buildings[i], d)} :
           /\ habit_buildings' = [habit_buildings EXCEPT ![i] = r.building]
           /\ resp' = [op |-> "calculate_decay", row |-> i,
                       record |-> habit_buildings[i], day |-> d, result |-> r.value]
    /\ UNCHANGED <<users, habit_logs, today>>
    /\ UNCHANGED safety_vars

\* apply_daily_decay(db, u, today=d)
ApplyDecay(u, d) ==
    /\ \E r \in {apply_daily_decay(DB, u, d)} :
           /\ users' = r.db.users
           /\ habit_buildings' = r.db.buildings
           /\ habit_logs' = r.db.logs
           /\ resp' = [op |-> "apply_daily_decay", user |-> u, day |-> d,
                       updates |-> r.updates]
    /\ UNCHANGED today
    /\ UNCHANGED safety_vars

FnUsers == {"u1"}
FnHabits == {"gym"}
Modifiers == {None} \cup {Some(a) : a \in ActionType}
Bases == {0, 1, 2, BASE_XP_GAIN}
DecayDays == (-1..8) \cup {100}

FnRegisterStep == \E u \in FnUsers : Register(u)

FnCompleteStep ==
    \E u \in FnUsers, h \in FnHabits, a \in Modifiers :
        SumXp(habit_buildings) < MaxFnXp /\ CompleteHabit(u, h, a)

XpGainStep ==
    \E h \in VALID_HABIT_TYPES, a \in Modifiers, base \in Bases : XpGain(h, a, base)

DecayStep == \E i \in DOMAIN habit_buildings, d \in DecayDays : Decay(i, d)

ApplyDecayStep == \E u \in FnUsers, d \in DecayDays : ApplyDecay(u, d)

NextFn ==
    \/ FnRegisterStep
    \/ FnCompleteStep
    \/ XpGainStep
    \/ DecayStep
    \/ ApplyDecayStep

SpecFn == Init /\ [][NextFn]_vars

----------------------------------------------------------------------------
(* One record from experience 0 to beyond the last threshold: completions, *)
(* direct calls of apply_xp_and_level with larger gains, decay             *)
(* recomputations and registrations.                                       *)

\* apply_xp_and_level(db, building, g) on the record of row i
ApplyXp(i, g) ==
    /\ \E r \in {apply_xp_and_level(DB, i, g, today)} :
           /\ users' = r.db.users
           /\ habit_buildings' = r.db.buildings
           /\ habit_logs' = r.db.logs
           /\ resp' = [op |-> "apply_xp_and_level", row |-> i,
                       old_xp |-> habit_buildings[i].xp,
                       result |-> [r EXCEPT !.db = {}]]
    /\ UNCHANGED today
    /\ UNCHANGED safety_vars

LevelModifiers == {None, Some(COMPENSATE_REWARD)}
Gains == {90, 300}
LevelDays == {0, 2, 4}

LevelRegisterStep == \E u \in FnUsers : Register(u)

LevelCompleteStep ==
    \E u \in FnUsers, h \in FnHabits, a \in LevelModifiers :
        SumXp(habit_buildings) < MaxLevelXp /\ CompleteHabit(u, h, a)

ApplyXpStep ==
    \E u \in FnUsers, h \in FnHabits, g \in Gains :
        /\ FirstBuilding(DB, u, h) # 0
        /\ SumXp(habit_buildings) < MaxLevelXp
        /\ ApplyXp(FirstBuilding(DB, u, h), g)

LevelDecayStep == \E u \in FnUsers, d \in LevelDays : ApplyDecay(u, d)

NextLevel ==
    \/ LevelRegisterStep
    \/ LevelCompleteStep
    \/ ApplyXpStep
    \/ LevelDecayStep

SpecLevel == Init /\ [][NextLevel]_vars

----------------------------------------------------------------------------
(* The records of one user over a week: registration, completions and the  *)
(* city-state endpoint, which recomputes decay, as the days go by.         *)

\* GET /city-state for a registered user, routes.py lines 198-216
GetCityState(u) ==
    /\ u \in users
    /\ \E r \in {apply_daily_decay(DB, u, today)} :
           /\ users' = r.db.users
           /\ habit_buildings' = r.db.buildings
           /\ habit_logs' = r.db.logs
           /\ resp' = [op |-> "city_state", user |-> u, day |-> today,
                       updates |-> r.updates,
                       city_state |-> get_city_state(r.db, u)]
    /\ UNCHANGED today
    /\ UNCHANGED safety_vars

\* midnight: date.today() reads the next day from now on
NextDay ==
    /\ today' = today + 1
    /\ UNCHANGED <<db_tables, resp>>
    /\ UNCHANGED safety_vars

ProgModifiers == {None, Some(COMPENSATE_REWARD)}

ProgRegisterStep == \E u \in FnUsers : Register(u)

ProgCompleteStep ==
    \E u \in FnUsers, h \in FnHabits, a \in ProgModifiers :
        SumXp(habit_buildings) < MaxProgXp /\ CompleteHabit(u, h, a)

CityStateStep == \E u \in FnUsers : GetCityState(u)

DayStep == today < MaxDay /\ NextDay

NextProg ==
    \/ ProgRegisterStep
    \/ ProgCompleteStep
    \/ CityStateStep
    \/ DayStep

SpecProg == Init /\ [][NextProg]_vars

----------------------------------------------------------------------------
(* POST /decide-action, with the model loaded at startup or not.           *)

\* the startup load of main.py succeeded, before any request is served
LoadModel ==
    /\ ~model_loaded /\ last.op = "none" /\ resp.op = "none"
    /\ model_loaded' = TRUE
    /\ UNCHANGED <<user_history, lists, pc, loc, last, log, inference_lock>>
    /\ UNCHANGED db_vars

\* decide_action, routes.py lines 53-79: the model proposes p with
\* confidence c unless the call fails at `fault`
DecideAction(u, fault, p, c) ==
    /\ Idle
    /\ \E r \in {run_inference(Mem, model_loaded, u, fault, p, c)} :
       \E m \in {Collect(r.mem, {})} :
           /\ user_history' = m.d
           /\ lists' = m.h
           /\ last' = IF r.ran
                      THEN [op |-> "apply", user |-> u, proposed |-> p, conf |-> c,
                            pre |-> Hist(Mem, u), final |-> r.final, reason |-> r.reason]
                      ELSE last
           /\ log' = IF r.ran THEN [log EXCEPT ![u] = Append(@, r.final)] ELSE log
           /\ resp' = [op |-> "decide_action", user |-> u, loaded |-> model_loaded,
                       fault |-> fault, ran |-> r.ran,
                       status |-> IF r.raised THEN 500 ELSE 200,
                       body |-> IF r.raised THEN None ELSE Some(r.response)]
    /\ UNCHANGED <<pc, loc, model_loaded, inference_lock>>
    /\ UNCHANGED <<users, habit_buildings, habit_logs, today>>

InferUsers == {"u1"}
InferConfs == {24, 25}

LoadStep == LoadModel

DecideStep ==
    \E u \in InferUsers, fault \in Faults, p \in ActionType, c \in InferConfs :
        Len(log[u]) < MaxInferCalls /\ DecideAction(u, fault, p, c)

NextInfer ==
    \/ LoadStep
    \/ DecideStep

SpecInfer == Init /\ [][NextInfer]_vars

----------------------------------------------------------------------------
(* The endpoints together: registration, also one cut short between its    *)
(* two commits, and completion requests with valid and invalid habit       *)
(* types, with and without a failing commit.                               *)

\* register_user for a new user that ends after the commit of the user row
\* (routes.py line 176) and before the commit of initialize_user_city
RegisterInterrupted(u) ==
    /\ u \notin users
    /\ users' = users \cup {u}
    /\ resp' = [op |-> "register", user |-> u, day |-> today, status |-> 500]
    /\ UNCHANGED <<habit_buildings, habit_logs, today>>
    /\ UNCHANGED safety_vars

\* POST /complete-habit with the token of u
CompleteEndpoint(u, h, fault, p, c, commit_ok) ==
    /\ Idle
    /\ \E r \in {complete_habit_endpoint(DB, Mem, model_loaded, u, h, fault, p, c,
                                         today, commit_ok)} :
       \E m \in {Collect(r.mem, {})} :
           /\ user_history' = m.d
           /\ lists' = m.h
           /\ last' = IF r.ran
                      THEN [op |-> "apply", user |-> u, proposed |-> p, conf |-> c,
                            pre |-> Hist(Mem, u),
                            final |-> Hist(m, u)[Len(Hist(m, u))],
                            reason |-> Decide(Hist(Mem, u), p, c).reason]
                      ELSE last
           /\ log' = IF r.ran
                     THEN [log EXCEPT ![u] = Append(@, Hist(m, u)[Len(Hist(m, u))])]
                     ELSE log
           /\ users' = r.db.users
           /\ habit_buildings' = r.db.buildings
           /\ habit_logs' = r.db.logs
           /\ resp' = [op |-> "complete_habit_endpoint", user |-> u, habit_type |-> h,
                       fault |-> fault, proposed |-> p, conf |-> c,
                       commit_ok |-> commit_ok, day |-> today,
                       before |-> IF FirstBuilding(DB, u, h) = 0 THEN None
                                  ELSE Some(habit_buildings[FirstBuilding(DB, u, h)]),
                       status |-> r.status, detail |-> r.detail, body |-> r.body]
    /\ UNCHANGED <<pc, loc, model_loaded, inference_lock, today>>

ApiHabits == {"gym", "chess"}
ApiFaults == {"none", "predict"}
ApiProposals == {COMPENSATE_REWARD}
ApiConfs == {24, 25}

NextApi ==
    \/ LoadModel
    \/ Register("u1")
    \/ RegisterInterrupted("u2")
    \/ \E u \in Users, h \in ApiHabits, fault \in ApiFaults, p \in ApiProposals,
          c \in ApiConfs, commit_ok \in BOOLEAN :
           /\ Len(log[u]) < MaxApiCalls
           /\ SumXp(habit_buildings) < MaxApiXp
           /\ CompleteEndpoint(u, h, fault, p, c, commit_ok)
    \/ today < MaxApiDay /\ NextDay

SpecApi == Init /\ [][NextApi]_vars

----------------------------------------------------------------------------
(* Completion requests served at the same time, each in the database       *)
(* session of its own (database.py lines 32-41: one SessionLocal() per     *)
(* request, autoflush off): complete_habit reads the record and the log    *)
(* entry of the day (lines 277-291), and everything it changed is written  *)
(* by the one commit of line 173.                                          *)

\* lines 274-291: the record and the log entry the session loaded
BeginComplete(t, u, h, a) ==
    /\ pc[t] = "idle"
    /\ h \in VALID_HABIT_TYPES
    /\ FirstBuilding(DB, u, h) # 0
    /\ pc' = [pc EXCEPT ![t] = "commit"]
    /\ loc' = [loc EXCEPT ![t] =
                  [user |-> u, habit_type |-> h, rl_action |-> a, day |-> today,
                   row |-> FirstBuilding(DB, u, h),
                   building |-> habit_buildings[FirstBuilding(DB, u, h)],
                   existing_log |-> FirstLog(DB, u, h, today),
                   history |-> 0, rec |-> 0]]
    /\ UNCHANGED <<user_history, lists, last, log, model_loaded, inference_lock>>
    /\ UNCHANGED db_vars

\* the attributes of the loaded object that the request changed, written over
\* the stored row (an UPDATE names the changed columns only)
Flush(stored, loaded, new) ==
    [f \in DOMAIN stored |-> IF new[f] # loaded[f] THEN new[f] ELSE stored[f]]

\* lines 293-308 and 160-173: the log entry is inserted unless one was
\* loaded, the loaded record gets the gain, and the session commits
CommitComplete(t) ==
    /\ pc[t] = "commit"
    /\ LET l == loc[t]
           session == [users |-> users,
                       buildings |-> [habit_buildings EXCEPT ![l.row] = l.building],
                       logs |-> habit_logs]
           gain == calculate_xp_gain(l.habit_type, l.rl_action, BASE_XP_GAIN)
           new == apply_xp_and_level(session, l.row, gain, l.day).db.buildings[l.row]
       IN  /\ habit_buildings' =
                  [habit_buildings EXCEPT ![l.row] = Flush(@, l.building, new)]
           /\ habit_logs' =
                  IF l.existing_log # 0
                  THEN [habit_logs EXCEPT ![l.existing_log].completed = TRUE]
                  ELSE Append(habit_logs,
                              [user_id |-> l.user, habit_type |-> l.habit_type,
                               date |-> l.day, completed |-> TRUE])
           /\ resp' = [op |-> "complete_commit", user |-> l.user,
                       habit_type |-> l.habit_type, day |-> l.day,
                       existing_log |-> l.existing_log, xp |-> new.xp]
    /\ pc' = [pc EXCEPT ![t] = "idle"]
    /\ loc' = [loc EXCEPT ![t] = NoLocals]
    /\ UNCHANGED <<user_history, lists, last, log, model_loaded, inference_lock>>
    /\ UNCHANGED <<users, today>>

TxHabits == {"gym", "study"}

NextTx ==
    \/ Idle /\ Register("u1")
    \/ \E t \in Threads, h \in TxHabits, a \in ProgModifiers :
           SumXp(habit_buildings) < MaxTxXp /\ BeginComplete(t, "u1", h, a)
    \/ \E t \in Threads : CommitComplete(t)
    \/ Idle /\ today < MaxApiDay /\ NextDay

SpecTx == Init /\ [][NextTx]_vars

----------------------------------------------------------------------------
(* Requests that reach model_loader.predict at the same time, in the       *)
(* threads of one process: the singleton ModelLoader has one               *)
(* _inference_lock (model_loader.py line 68), taken by the with statement  *)
(* of line 122 around the evaluation of the model.                         *)

Lock_acquire_NoWait(lock) == TRUE

\* Lock.acquire() returns once the lock is free
Lock_acquire(lock) == ~lock

\* inference.py lines 52-57 and model_loader.py lines 119-120: a request
\* for user u arrives at predict; without a loaded model it gets the fallback
PredictCall(t, u) ==
    /\ pc[t] = "idle"
    /\ IF model_loaded
       THEN /\ pc' = [pc EXCEPT ![t] = "lock"]
            /\ loc' = [loc EXCEPT ![t] = [NoLocals EXCEPT !.user = u]]
            /\ UNCHANGED resp
       ELSE /\ resp' = [op |-> "predict", thread |-> t, user |-> u, count |-> 0,
                        status |-> "fallback",
                        body |-> Some(create_fallback_response)]
            /\ UNCHANGED <<pc, loc>>
    /\ UNCHANGED <<user_history, lists, last, log, model_loaded, inference_lock>>
    /\ UNCHANGED <<users, habit_buildings, habit_logs, today>>

\* model_loader.py line 122: with self._inference_lock
PredictAcquire(t) ==
    /\ pc[t] = "lock"
    /\ Lock_acquire(inference_lock)
    /\ inference_lock' = TRUE
    /\ pc' = [pc EXCEPT ![t] = "predict"]
    /\ UNCHANGED <<user_history, lists, loc, last, log, model_loaded>>
    /\ UNCHANGED db_vars

\* the number of predict calls that have returned
Predicted == IF resp.op = "predict" THEN resp.count ELSE 0

\* model_loader.py lines 123-139: the model is evaluated, the with statement
\* releases the lock, and predict returns (p, c) or raises
PredictReturn(t, ok, p, c) ==
    /\ pc[t] = "predict"
    /\ inference_lock' = FALSE
    /\ pc' = [pc EXCEPT ![t] = "idle"]
    /\ loc' = [loc EXCEPT ![t] = NoLocals]
    /\ resp' = [op |-> "predict", thread |-> t, user |-> loc[t].user,
                count |-> Predicted + 1,
                status |-> IF ok THEN "returned" ELSE "raised",
                body |-> IF ok THEN Some(<<p, c>>) ELSE None]
    /\ UNCHANGED <<user_history, lists, last, log, model_loaded>>
    /\ UNCHANGED <<users, habit_buildings, habit_logs, today>>

NextPredict ==
    \/ LoadModel
    \/ \E t \in Threads, u \in Users : Predicted < MaxPredictCalls /\ PredictCall(t, u)
    \/ \E t \in Threads : PredictAcquire(t)
    \/ \E t \in Threads, ok \in BOOLEAN, p \in ActionType, c \in Confs :
           PredictReturn(t, ok, p, c)

SpecPredict == Init /\ [][NextPredict]_vars

----------------------------------------------------------------------------
(* Requests of one user without end: every call returns                    *)
(* (apply_safety_rules has no loop and waits for nothing) and the next     *)
(* request arrives. After the first MaxWarmUp requests the policy proposes *)
(* the same action at every request, with a confidence that may vary.      *)

\* apply_safety_rules(u, p, c), lines 36-94; of the recorded finals the
\* last history_limit are kept in log
ApplyForever(u, p, c) ==
    /\ Idle
    /\ \E r \in {apply_safety_rules(Mem, u, p, c)} :
       \E m \in {Collect(r.mem, {})} :
           /\ user_history' = m.d
           /\ lists' = m.h
           /\ last' = [op |-> "apply", user |-> u, proposed |-> p, conf |-> c,
                       pre |-> Hist(Mem, u), final |-> r.final, reason |-> r.reason]
           /\ log' = [log EXCEPT ![u] = LastN(Append(@, r.final), history_limit)]
    /\ UNCHANGED <<pc, loc>>
    /\ UNCHANGED <<db_vars, model_loaded, inference_lock>>

LiveConfs == {24, 25}

RequestStep ==
    \E p \in ActionType, c \in LiveConfs :
        /\ Len(log["u1"]) >= MaxWarmUp => p = last.proposed
        /\ ApplyForever("u1", p, c)

NextLive == RequestStep

SpecLive == Init /\ [][NextLive]_vars /\ WF_vars(RequestStep)

----------------------------------------------------------------------------
(* Two users with records of their own: registrations, completions and     *)
(* decay recomputations for either of them.                                *)

NextFrame ==
    \/ \E u \in Users : Register(u)
    \/ \E u \in Users, h \in FnHabits :
           SumXp(habit_buildings) < MaxFrameXp /\ CompleteHabit(u, h, None)
    \/ \E u \in Users, d \in LevelDays : ApplyDecay(u, d)

SpecFrame == Init /\ [][NextFrame]_vars

----------------------------------------------------------------------------
(* Properties of the safety manager *)

\* the call that returned most recently was apply_safety_rules
Applied == last.op = "apply"

\* entries equal to x among the last three of h
Trailing(h, x) == Cardinality({i \in DOMAIN h : i > Len(h) - 3 /\ h[i] = x})

\* h has three entries or more and its last three all equal x
LastThreeAll(h, x) == Len(h) >= 3 /\ \A i \in (Len(h) - 2)..Len(h) : h[i] = x

\* the safety manager's memory after the step
MemAfter == [d |-> user_history', h |-> lists']

Returned(action, reason) == last.final = action /\ last.reason = reason

\* C1: whatever the user, the history and the proposal, a confidence below
\* 0.25 makes apply_safety_rules return (NEUTRAL_WAIT, "uncertainty_fallback").
C1_UncertaintyFallback ==
    (Applied /\ last.conf < 25) => Returned(NEUTRAL_WAIT, "uncertainty_fallback")

\* a low-confidence call on a history where the consecutive cap would match too
C1_Witness ==
    /\ Applied /\ last.conf < 25
    /\ last.proposed = LOWER_GOAL
    /\ LastThreeAll(last.pre, LOWER_GOAL)

\* C2: a SOFT_PENALTY proposal with confidence >= 0.25 on a history with at
\* least 2 SOFT_PENALTY among its last 3 entries returns
\* (NEUTRAL_WAIT, "anti_penalty_collapse"), also when the last entry differs.
C2_AntiPenaltyCollapse ==
    (/\ Applied /\ last.conf >= 25
     /\ last.proposed = SOFT_PENALTY
     /\ Trailing(last.pre, SOFT_PENALTY) >= 2)
    => Returned(NEUTRAL_WAIT, "anti_penalty_collapse")

\* the history ended [SOFT_PENALTY, SOFT_PENALTY, X] with X another action
C2_Witness ==
    /\ Applied /\ last.conf >= 25 /\ last.proposed = SOFT_PENALTY
    /\ Len(last.pre) >= 3
    /\ last.pre[Len(last.pre) - 2] = SOFT_PENALTY
    /\ last.pre[Len(last.pre) - 1] = SOFT_PENALTY
    /\ last.pre[Len(last.pre)] # SOFT_PENALTY

\* C3: a COMPENSATE_REWARD proposal with confidence >= 0.25 on a history with
\* at least 2 COMPENSATE_REWARD among its last 3 entries returns
\* (NEUTRAL_WAIT, "anti_reward_spam").
C3_AntiRewardSpam ==
    (/\ Applied /\ last.conf >= 25
     /\ last.proposed = COMPENSATE_REWARD
     /\ Trailing(last.pre, COMPENSATE_REWARD) >= 2)
    => Returned(NEUTRAL_WAIT, "anti_reward_spam")

\* two rewards in the window, the older one not adjacent to the call
C3_Witness ==
    /\ Applied /\ last.conf >= 25 /\ last.proposed = COMPENSATE_REWARD
    /\ Len(last.pre) >= 3
    /\ last.pre[Len(last.pre) - 2] = COMPENSATE_REWARD
    /\ last.pre[Len(last.pre) - 1] # COMPENSATE_REWARD
    /\ last.pre[Len(last.pre)] = COMPENSATE_REWARD

\* C4: with confidence >= 0.25 and rules 2 and 3 not matching, a history of
\* 3 entries or more whose last 3 all equal the proposal returns
\* (NEUTRAL_WAIT, "max_consecutive_reached").
C4_ConsecutiveCap ==
    (/\ Applied /\ last.conf >= 25
     /\ ~(last.proposed = SOFT_PENALTY /\ Trailing(last.pre, SOFT_PENALTY) >= 2)
     /\ ~(last.proposed = COMPENSATE_REWARD /\ Trailing(last.pre, COMPENSATE_REWARD) >= 2)
     /\ LastThreeAll(last.pre, last.proposed))
    => Returned(NEUTRAL_WAIT, "max_consecutive_reached")

\* LOWER_GOAL proposed a fourth time in a row on a history of exactly three
C4_Witness ==
    /\ Applied /\ last.conf >= 25 /\ last.proposed = LOWER_GOAL
    /\ last.pre = <<LOWER_GOAL, LOWER_GOAL, LOWER_GOAL>>

\* C5: the result is that of the first matching rule in the order uncertainty
\* fallback, anti-penalty-collapse, anti-reward-spam, consecutive cap, and it
\* is (proposed, "model_decision") exactly when none of the four matches.
C5_FirstMatchWins ==
    Applied =>
        LET m1 == last.conf < 25
            m2 == last.proposed = SOFT_PENALTY /\ Trailing(last.pre, SOFT_PENALTY) >= 2
            m3 == last.proposed = COMPENSATE_REWARD
                  /\ Trailing(last.pre, COMPENSATE_REWARD) >= 2
            m4 == LastThreeAll(last.pre, last.proposed)
        IN  /\ m1 => Returned(NEUTRAL_WAIT, "uncertainty_fallback")
            /\ (~m1 /\ m2) => Returned(NEUTRAL_WAIT, "anti_penalty_collapse")
            /\ (~m1 /\ ~m2 /\ m3) => Returned(NEUTRAL_WAIT, "anti_reward_spam")
            /\ (~m1 /\ ~m2 /\ ~m3 /\ m4) => Returned(NEUTRAL_WAIT, "max_consecutive_reached")
            /\ Returned(last.proposed, "model_decision") <=> ~(m1 \/ m2 \/ m3 \/ m4)

\* low confidence on a history where anti-penalty-collapse matches as well
C5_Witness ==
    /\ Applied /\ last.conf < 25
    /\ last.proposed = SOFT_PENALTY
    /\ Trailing(last.pre, SOFT_PENALTY) >= 2

\* C6: a call apply_safety_rules(u, p, c) appends exactly one entry to u's
\* history, the returned final action, and changes no other user's history.
C6_RecordsFinalOnly ==
    [][(last'.op = "apply" /\ Apply(last'.user, last'.proposed, last'.conf)) =>
          /\ Hist(MemAfter, last'.user) =
                 LastN(Append(Hist(Mem, last'.user), last'.final), 10)
          /\ \A v \in Users \ {last'.user} : Hist(Mem, v)' = Hist(Mem, v)]_vars

\* a rule overrode a proposal while the other user had a history
C6_Witness ==
    /\ Applied /\ last.proposed # NEUTRAL_WAIT /\ last.final = NEUTRAL_WAIT
    /\ \E v \in Users \ {last.user} : Hist(Mem, v) # <<>>
    /\ Hist(Mem, last.user) = Append(last.pre, NEUTRAL_WAIT)

\* C7: after n calls for a user and no clear, the history holds the finals of
\* the most recent min(n, 10) calls in call order.
C7_SlidingWindow ==
    \A u \in Users :
        /\ Len(Hist(Mem, u)) = Min(Len(log[u]), 10)
        /\ \A i \in 1..Len(Hist(Mem, u)) :
               Hist(Mem, u)[i] = log[u][Len(log[u]) - Len(Hist(Mem, u)) + i]

\* twelve calls: two entries were evicted, and they differ from what followed
C7_Witness ==
    /\ Len(log["u1"]) = 12
    /\ log["u1"][1] # log["u1"][11]
    /\ log["u1"][2] # log["u1"][12]

\* C8: when calls for the same user interleave between their steps, no
\* recorded final is lost: once the calls have completed, the history holds
\* the most recent min(k, 10) recorded finals, one entry per call.
C8_NoLostUpdate ==
    Idle => \A u \in Users : Hist(Mem, u) = LastN(log[u], 10)

\* C9: clear_user_history(u) leaves u's history empty, so that the next
\* apply for u can only fall back on low confidence or pass the proposal
\* through, and it changes no progression record, no completion log and no
\* other user's history.
C9_ClearResets ==
    [][\A u \in Users :
          Clear(u) =>
              /\ Hist(Mem, u)' = <<>>
              /\ \A p \in ActionType, c \in Confs :
                     LET r == apply_safety_rules(MemAfter, u, p, c)
                     IN  IF c < 25
                         THEN r.final = NEUTRAL_WAIT /\ r.reason = "uncertainty_fallback"
                         ELSE r.final = p /\ r.reason = "model_decision"
              /\ \A v \in Users \ {u} : Hist(Mem, v)' = Hist(Mem, v)
              /\ habit_buildings' = habit_buildings
              /\ habit_logs' = habit_logs
              /\ users' = users]_vars

\* a history on which the cap would have fired was cleared, while the other
\* user had a history and a building had gained experience
C9_Witness ==
    /\ last.op = "clear"
    /\ LastThreeAll(last.pre, LOWER_GOAL)
    /\ Hist(Mem, last.user) = <<>>
    /\ \E v \in Users \ {last.user} : Hist(Mem, v) # <<>>
    /\ \E i \in DOMAIN habit_buildings : habit_buildings[i].xp > 0

\* C10: the result depends on the trailing window only: on a history of 3
\* entries or more it is the result the same call has on the last 3 entries
\* alone, whatever the older entries are.
C10_TrailingWindowOnly ==
    (Applied /\ Len(last.pre) >= 3) =>
        \A older \in {<<>>, <<last.proposed>>, <<SOFT_PENALTY, COMPENSATE_REWARD>>} :
            LET r == Decide(older \o LastN(last.pre, 3), last.proposed, last.conf)
            IN  Returned(r.final, r.reason)

\* the cap fired on a window preceded by an older entry that differs from it
C10_Witness ==
    /\ Applied /\ Len(last.pre) >= 4
    /\ last.reason = "max_consecutive_reached"
    /\ last.pre[Len(last.pre) - 3] # last.proposed

\* the entries i..i+3 of h exist and all equal x
RunOfFour(h, i, x) == i + 3 <= Len(h) /\ \A j \in i..(i + 3) : h[j] = x

----------------------------------------------------------------------------
(* Properties of the progression functions *)

\* the last call was calculate_xp_gain with the base gain of the code
GainOf25 == resp.op = "calculate_xp_gain" /\ resp.base_xp = BASE_XP_GAIN

\* C12: with the base gain 25, calculate_xp_gain returns 37 for
\* COMPENSATE_REWARD, 20 for SOFT_PENALTY and 25 for LOWER_GOAL, NEUTRAL_WAIT
\* or no action, for every habit type.
C12_GainTable ==
    GainOf25 =>
        resp.result = IF resp.rl_action = Some(COMPENSATE_REWARD) THEN 37
                      ELSE IF resp.rl_action = Some(SOFT_PENALTY) THEN 20
                      ELSE 25

\* the experience of the record a successful completion wrote, before it
XpBefore == resp.result.xp - resp.result.xp_delta

Completed == resp.op = "complete" /\ resp.result.error = ""

\* C13: for every base gain, 0 and 1 included, and every action modifier,
\* calculate_xp_gain returns an integer of at least 1, and so the experience
\* a successful completion leaves is strictly above the experience before it.
C13_GainAtLeastOne ==
    /\ resp.op = "calculate_xp_gain" => resp.result \in Nat \ {0}
    /\ Completed => /\ resp.result.xp_delta \in Nat \ {0}
                    /\ resp.result.xp > XpBefore
                    /\ XpBefore >= 0

\* base gain 0 came back as 1
C13_Witness ==
    /\ resp.op = "calculate_xp_gain"
    /\ resp.base_xp = 0
    /\ resp.rl_action = Some(COMPENSATE_REWARD)
    /\ resp.result = 1

\* the last call was calculate_decay on a record that has a completion date
DecayCalled == resp.op = "calculate_decay"
Elapsed == resp.day - resp.record.last_completed_date[1]

\* C19: calculate_decay(record, today) is 0 when last_completed_date is null,
\* 0 when the elapsed days are at most 1 (a completion date in the future
\* included), and min(elapsed - 1, 5) from 2 elapsed days on: 2 gives 1,
\* 7 gives 5, 100 gives 5.
C19_DecayTable ==
    DecayCalled =>
        IF resp.record.last_completed_date = None THEN resp.result = 0
        ELSE /\ Elapsed <= 1 => resp.result = 0
             /\ Elapsed >= 2 /\ Elapsed - 1 <= 5 => resp.result = Elapsed - 1
             /\ Elapsed >= 2 /\ Elapsed - 1 > 5 => resp.result = 5
             /\ Elapsed = 2 => resp.result = 1
             /\ Elapsed = 7 => resp.result = 5
             /\ Elapsed = 100 => resp.result = 5

\* a record completed a hundred days before the day asked about
C19_Witness ==
    /\ DecayCalled
    /\ resp.record.last_completed_date # None
    /\ Elapsed = 100
    /\ resp.result = 5

\* C20: a call of calculate_decay changes no field of any record, of any row
\* of any table: the stored decay_days of a record changes only in a step of
\* apply_daily_decay (called on its own or by the registration of an
\* existing user, routes.py line 149) or of a completion.
C20_DecayIsPure ==
    [][/\ resp'.op = "calculate_decay" /\ Decay(resp'.row, resp'.day)
          => UNCHANGED db_tables
       /\ \A i \in DOMAIN habit_buildings :
              habit_buildings'[i].decay_days # habit_buildings[i].decay_days
              => \/ /\ resp'.op = "apply_daily_decay"
                    /\ ApplyDecay(resp'.user, resp'.day)
                 \/ /\ resp'.op = "register" /\ ~resp'.is_new_user
                    /\ Register(resp'.user)
                 \/ /\ resp'.op = "complete"
                    /\ CompleteHabit(resp'.user, resp'.habit_type, resp'.rl_action)
      ]_vars

\* calculate_decay returned 3 for a record whose stored decay_days is 1, and
\* the record still says 1
C20_Witness ==
    /\ DecayCalled
    /\ resp.result = 3
    /\ resp.record.decay_days = 1
    /\ habit_buildings[resp.row] = resp.record

\* the highest level of 1..5 whose cumulative threshold xp meets
HighestLevel(xp) ==
    CHOOSE L \in 1..5 :
        /\ XP_THRESHOLDS[L] <= xp
        /\ \A M \in 1..5 : XP_THRESHOLDS[M] <= xp => M <= L

XpApplied == resp.op = "apply_xp_and_level"

C16_Monotone ==
    /\ [](\A i \in DOMAIN habit_buildings :
              /\ habit_buildings[i].xp >= 0
              /\ habit_buildings[i].level \in 1..5)
    /\ [][\A i \in DOMAIN habit_buildings :
              /\ i \in DOMAIN habit_buildings'
              /\ habit_buildings'[i].xp >= habit_buildings[i].xp
              /\ habit_buildings'[i].level >= habit_buildings[i].level]_vars

\* an existing user beyond the last threshold registers again, with a
\* decayed record
C16_Witness ==
    /\ resp.op = "register" /\ ~resp.is_new_user
    /\ \E i \in DOMAIN habit_buildings :
           /\ habit_buildings[i].xp > XP_THRESHOLDS[5]
           /\ habit_buildings[i].level = 5
           /\ \E b \in resp.city_state : b.habit_type = habit_buildings[i].habit_type
                                         /\ b.decay_days > 0

\* what elapsed time alone says the decay of building b is on day d
ExpectedDecay(b, d) ==
    IF b.last_completed_date = None THEN 0
    ELSE IF d - b.last_completed_date[1] <= 1 THEN 0
    ELSE IF d - b.last_completed_date[1] - 1 < 5 THEN d - b.last_completed_date[1] - 1
    ELSE 5

RowsOf(u) == {i \in DOMAIN habit_buildings : habit_buildings[i].user_id = u}

\* C17: right after a completion on day d the completed record, and right
\* after an apply_daily_decay with today = d every record of the user, stores
\* the decay_days that calculate_decay gives for day d; in every reachable
\* state decay_days is within 0..5.
C17_DecayRecomputed ==
    /\ \A i \in DOMAIN habit_buildings : habit_buildings[i].decay_days \in 0..5
    /\ Completed =>
           \E i \in RowsOf(resp.user) :
               /\ habit_buildings[i].habit_type = resp.habit_type
               /\ habit_buildings[i].decay_days = ExpectedDecay(habit_buildings[i], resp.day)
    /\ resp.op \in {"city_state", "apply_daily_decay"} =>
           \A i \in RowsOf(resp.user) :
               habit_buildings[i].decay_days = ExpectedDecay(habit_buildings[i], resp.day)
    /\ (resp.op = "register" /\ ~resp.is_new_user) =>
           \A i \in RowsOf(resp.user) :
               habit_buildings[i].decay_days = ExpectedDecay(habit_buildings[i], resp.day)

\* the city was looked at on two days; the second time, a week after the
\* completion, the stored decay went from 3 to the cap
C17_Witness ==
    /\ resp.op = "city_state"
    /\ \E up \in resp.updates : up.old_decay = 3 /\ up.new_decay = 5
    /\ \E i \in RowsOf(resp.user) :
           /\ habit_buildings[i].last_completed_date # None
           /\ resp.day - habit_buildings[i].last_completed_date[1] = 7
           /\ habit_buildings[i].decay_days = 5

\* C18: every successful completion leaves the completed record with
\* decay_days 0 and last_completed_date the day of the completion, whatever
\* the decay_days and last_completed_date before, the gain and the level-up.
C18_CompletionResets ==
    Completed =>
        LET i == FirstBuilding(DB, resp.user, resp.habit_type)
        IN  /\ i # 0
            /\ habit_buildings[i].decay_days = 0
            /\ habit_buildings[i].last_completed_date = Some(resp.day)
            /\ resp.result.decay_days = 0

\* a decayed record, last completed days ago, is completed and levels up
C18_Witness ==
    /\ Completed
    /\ resp.before # None
    /\ resp.before[1].decay_days > 0
    /\ resp.before[1].last_completed_date # None
    /\ resp.before[1].last_completed_date # Some(resp.day)
    /\ resp.result.level_up

\* the rows of user u whose stored decay_days is not what day d gives
Stale(u, d) ==
    {i \in RowsOf(u) : ExpectedDecay(habit_buildings[i], d) # habit_buildings[i].decay_days}

\* C21: apply_daily_decay(user, today) brings every record of the user to the
\* recomputed decay_days, changes nothing but decay_days and only on records
\* whose recomputed value differs from the stored one, returns exactly one
\* entry (old_decay, new_decay) per such record, and, called again with the
\* same today, returns an empty list and changes nothing.
C21_DecayChangesOnly ==
    [][(resp'.op = "apply_daily_decay" /\ ApplyDecay(resp'.user, resp'.day)) =>
          /\ users' = users /\ habit_logs' = habit_logs
          /\ DOMAIN habit_buildings' = DOMAIN habit_buildings
          /\ \A i \in DOMAIN habit_buildings :
                 habit_buildings'[i] =
                     IF i \in Stale(resp'.user, resp'.day)
                     THEN [habit_buildings[i] EXCEPT
                              !.decay_days = ExpectedDecay(habit_buildings[i], resp'.day)]
                     ELSE habit_buildings[i]
          /\ resp'.updates =
                 {[habit_type |-> habit_buildings[i].habit_type,
                   old_decay |-> habit_buildings[i].decay_days,
                   new_decay |-> ExpectedDecay(habit_buildings[i], resp'.day)] :
                      i \in Stale(resp'.user, resp'.day)}
          /\ Cardinality(resp'.updates) = Cardinality(Stale(resp'.user, resp'.day))
          /\ (resp.op = "apply_daily_decay" /\ resp.user = resp'.user
              /\ resp.day = resp'.day)
             => resp'.updates = {} /\ habit_buildings' = habit_buildings
      ]_vars

\* an apply_daily_decay that found a decayed record already up to date and
\* returned no entry
C21_Witness ==
    /\ resp.op = "apply_daily_decay"
    /\ resp.updates = {}
    /\ \E i \in RowsOf(resp.user) :
           /\ habit_buildings[i].decay_days = 3
           /\ ExpectedDecay(habit_buildings[i], resp.day) = 3

\* the buildings table after apply_daily_decay for user u on each day of ds,
\* in the order of ds, with nothing else in between
RECURSIVE DecayOnDays(_, _, _)
DecayOnDays(db, u, ds) ==
    IF ds = <<>> THEN db.buildings
    ELSE DecayOnDays(apply_daily_decay(db, u, Head(ds)).db, u, Tail(ds))

\* C22: lazy decay does not depend on the path: from any reachable state of
\* the records and for days d1 < d2 with no completion in between, the
\* decay_days stored after apply_daily_decay on d2 are the same whether
\* apply_daily_decay ran on d2 only, on d1 and d2, or on every day from d1
\* to d2.
C22_PathIndependent ==
    \A u \in users :
        \A d1 \in today..MaxDay, d2 \in today..(MaxDay + 1) :
            d1 < d2 =>
                /\ DecayOnDays(DB, u, <<d1, d2>>) = DecayOnDays(DB, u, <<d2>>)
                /\ DecayOnDays(DB, u, [k \in 1..(d2 - d1 + 1) |-> d1 + k - 1])
                       = DecayOnDays(DB, u, <<d2>>)

\* the city was looked at the day after the first missed day and again three
\* days later: the stored decay went from 1 to 4, as it would have in one go
C22_Witness ==
    /\ resp.op = "city_state"
    /\ \E up \in resp.updates : up.old_decay = 1 /\ up.new_decay = 4
    /\ \E i \in RowsOf(resp.user) :
           /\ habit_buildings[i].last_completed_date # None
           /\ resp.day - habit_buildings[i].last_completed_date[1] = 5
           /\ habit_buildings[i].decay_days = 4

\* the record a successful completion found
Before == resp.before[1]

----------------------------------------------------------------------------
(* Properties of the inference pipeline and of the endpoints *)

Decided == resp.op = "decide_action"

\* C24: run_inference never raises to its caller: when the model is not
\* loaded, when predict raises and when a later step of the pipeline raises,
\* the caller gets the fixed fallback decision: action_id 3 (NEUTRAL_WAIT),
\* label STEADY_PROGRESS, city_effect idle, no confidence.
C24_NeverRaises ==
    Decided =>
        /\ resp.status = 200 /\ resp.body # None
        /\ (~resp.loaded \/ resp.fault # "none") =>
               /\ resp.body[1].action_id = 3
               /\ resp.body[1].action = "STEADY_PROGRESS"
               /\ resp.body[1].city_effect = "idle"
               /\ resp.body[1].confidence = None

\* a step after the safety rules failed: the rules had let LOWER_GOAL through
\* and recorded it, the caller got the fallback
C24_Witness ==
    /\ Decided /\ resp.loaded /\ resp.fault = "later" /\ resp.ran
    /\ last.user = resp.user /\ last.final = LOWER_GOAL
    /\ resp.body = Some(create_fallback_response)

\* the wire names of the action ids
Label(a) == CASE a = 0 -> "GENTLE_RESET" [] a = 1 -> "EASIER_DAY"
              [] a = 2 -> "REWARD_BOOST" [] a = 3 -> "STEADY_PROGRESS"

Effect(a) == CASE a = 0 -> "add_fog" [] a = 1 -> "simplify_building"
               [] a = 2 -> "upgrade_building" [] a = 3 -> "idle"

Posted == resp.op = "complete_habit_endpoint"

\* the step is the POST /complete-habit request that resp' describes
PostStep ==
    /\ resp'.op = "complete_habit_endpoint"
    /\ CompleteEndpoint(resp'.user, resp'.habit_type, resp'.fault, resp'.proposed,
                        resp'.conf, resp'.commit_ok)

\* C26: a completion request whose habit type is not one of gym, study, sleep,
\* meditation, diet is rejected with nothing applied: no log entry added, no
\* progression record changed, no entry added to the safety history.
C26_InvalidHabitRejected ==
    [][(PostStep /\ resp'.habit_type \notin {"gym", "study", "sleep", "meditation", "diet"})
          => /\ resp'.status >= 400 /\ resp'.body = None
             /\ UNCHANGED db_tables
             /\ \A u \in Users : Hist(MemAfter, u) = Hist(Mem, u)
             /\ UNCHANGED <<user_history, log>>
      ]_vars

\* an unknown habit type was posted by a registered user who has a history,
\* with the model loaded and a commit that would have succeeded
C26_Witness ==
    /\ Posted /\ resp.habit_type = "chess" /\ resp.status = 400
    /\ resp.user \in users /\ model_loaded /\ resp.fault = "none" /\ resp.commit_ok
    /\ Len(Hist(Mem, resp.user)) = 1
    /\ habit_logs # <<>>

ValidHabit(h) == h \in {"gym", "study", "sleep", "meditation", "diet"}

\* C27: a completion for a valid habit type of a user who has no progression
\* record for it fails with an error the caller sees, and creates neither a
\* progression record nor a completion log entry.
C27_MissingRecordFails ==
    [][(PostStep /\ ValidHabit(resp'.habit_type)
        /\ FirstBuilding(DB, resp'.user, resp'.habit_type) = 0)
          => /\ resp'.status >= 400 /\ resp'.detail # "" /\ resp'.body = None
             /\ habit_buildings' = habit_buildings
             /\ habit_logs' = habit_logs
             /\ users' = users
      ]_vars

\* a user whose registration stopped before the city was built posts a
\* completion of gym
C27_Witness ==
    /\ Posted /\ resp.habit_type = "gym" /\ resp.before = None
    /\ resp.user \in users /\ resp.commit_ok
    /\ resp.status = 400
    /\ RowsOf(resp.user) = {}

\* the (status, detail) pairs POST /complete-habit gives in this state for
\* the habit types hs to the users us
Outcomes(us, hs) ==
    {[status |-> r.status, detail |-> r.detail] :
        r \in {complete_habit_endpoint(DB, Mem, model_loaded, x[1], x[2], "none",
                                       NEUTRAL_WAIT, 25, today, TRUE) :
                   x \in us \X hs}}

\* the errors complete_habit raises in this state for hs and us
Errors(us, hs) ==
    {complete_habit(DB, x[1], x[2], None, today).error : x \in us \X hs}

Recordless(h) == {u \in users : FirstBuilding(DB, u, h) = 0}

\* C28: the error of a completion request for an unknown habit type differs
\* from the error for a missing progression record, in what complete_habit
\* raises and in what POST /complete-habit answers, and both are errors.
C28_DistinctErrors ==
    /\ \A h \in VALID_HABIT_TYPES :
           /\ Errors(users, {"chess"}) \cap Errors(Recordless(h), {h}) = {}
           /\ Outcomes(users, {"chess"}) \cap Outcomes(Recordless(h), {h}) = {}
           /\ "" \notin Errors(users, {"chess"}) \cup Errors(Recordless(h), {h})
    /\ (Posted /\ resp.user \in users /\ ~ValidHabit(resp.habit_type))
       => resp.status = 400 /\ resp.detail = "invalid_habit_type_must_be_one_of"
    /\ (Posted /\ resp.user \in users /\ ValidHabit(resp.habit_type) /\ resp.before = None)
       => resp.status = 400 /\ resp.detail = "building_not_found"

\* both kinds of user exist: one with records, who can only fail by the habit
\* type, and one without, whose request for a valid habit type just failed
C28_Witness ==
    /\ Posted /\ resp.detail = "building_not_found"
    /\ \E u \in users : RowsOf(u) # {}
    /\ Outcomes(users, {"chess"}) # {}

\* C29: for every completion request, one whose commit fails included,
\* either the log entry of the day and the update of the record (experience,
\* level, decay reset, last_completed_date) are both persisted or neither
\* is: no record holds experience without the log entry of the day it was
\* granted on, and no log entry exists without the grant.
C29_LogAndGrantTogether ==
    /\ [](\A i \in DOMAIN habit_buildings :
              LET b == habit_buildings[i]
              IN  /\ b.xp > 0 <=> b.last_completed_date # None
                  /\ b.last_completed_date # None
                     => FirstLog(DB, b.user_id, b.habit_type, b.last_completed_date[1]) # 0)
    /\ [](\A j \in DOMAIN habit_logs :
              LET i == FirstBuilding(DB, habit_logs[j].user_id, habit_logs[j].habit_type)
              IN  /\ i # 0 /\ habit_logs[j].completed
                  /\ habit_buildings[i].xp > 0
                  /\ habit_buildings[i].last_completed_date # None
                  /\ habit_buildings[i].last_completed_date[1] >= habit_logs[j].date)
    /\ [][PostStep =>
              IF resp'.status = 200
              THEN LET i == FirstBuilding(DB, resp'.user, resp'.habit_type)
                   IN  /\ habit_buildings'[i].xp > habit_buildings[i].xp
                       /\ habit_buildings'[i].decay_days = 0
                       /\ habit_buildings'[i].last_completed_date = Some(today)
                       /\ \E j \in DOMAIN habit_logs' :
                              /\ habit_logs'[j].user_id = resp'.user
                              /\ habit_logs'[j].habit_type = resp'.habit_type
                              /\ habit_logs'[j].date = today
                              /\ habit_logs'[j].completed
              ELSE UNCHANGED db_tables
      ]_vars

\* the commit of a completion failed on a day without a log entry yet, for a
\* record that had experience from the day before
C29_Witness ==
    /\ Posted /\ resp.status = 500 /\ ~resp.commit_ok
    /\ resp.before # None /\ Before.xp > 0
    /\ Before.last_completed_date # Some(resp.day)
    /\ FirstLog(DB, resp.user, resp.habit_type, resp.day) = 0
    /\ habit_buildings[FirstBuilding(DB, resp.user, resp.habit_type)] = Before

\* the log entries of user u for habit h on day d
LogsOf(u, h, d) ==
    {j \in DOMAIN habit_logs : /\ habit_logs[j].user_id = u
                               /\ habit_logs[j].habit_type = h
                               /\ habit_logs[j].date = d}

\* C30: after any sequence or interleaving of completion requests, requests
\* at the same time for the same user, habit and day included, there is at
\* most one log entry per (user, habit type, date); a second completion of
\* the day updates the entry that exists and adds none.
C30_OneLogPerDay ==
    /\ \A j \in DOMAIN habit_logs :
           Cardinality(LogsOf(habit_logs[j].user_id, habit_logs[j].habit_type,
                              habit_logs[j].date)) <= 1
    /\ resp.op = "complete_commit"
       => Cardinality(LogsOf(resp.user, resp.habit_type, resp.day)) = 1

----------------------------------------------------------------------------
(* Properties of concurrent requests *)

\* the threads that are evaluating the model
Evaluating == {t \in Threads : pc[t] = "predict"}

\* C31: at most one evaluation of the model by predict is in progress at any
\* time, however many requests are running; the lock is held exactly while
\* one is.
C31_OnePredictAtATime ==
    /\ Cardinality(Evaluating) <= 1
    /\ inference_lock <=> Evaluating # {}

\* one request evaluates the model while the other waits for the lock
C31_Witness ==
    /\ pc["t1"] = "predict"
    /\ pc["t2"] = "lock"
    /\ Predicted >= 1

\* the progression records of user u for habit h
RecordsOf(u, h) ==
    {i \in DOMAIN habit_buildings : /\ habit_buildings[i].user_id = u
                                    /\ habit_buildings[i].habit_type = h}

\* C32: in every reachable state, also after a register request that was
\* interrupted, every user in Users has exactly one progression record per
\* habit type, and a record no completion has touched still has the values
\* it was created with: experience 0, level 1, decay_days 0, no completion date.
C32_FiveRecordsPerUser ==
    \A u \in users, h \in VALID_HABIT_TYPES :
        /\ Cardinality(RecordsOf(u, h)) = 1
        /\ \A i \in RecordsOf(u, h) :
               habit_buildings[i].last_completed_date = None
               => /\ habit_buildings[i].xp = 0
                  /\ habit_buildings[i].level = 1
                  /\ habit_buildings[i].decay_days = 0

----------------------------------------------------------------------------
(* Properties of the endpoints across days and requests *)

\* C33: every city state returned by a read, by GET /city-state and by
\* /register for an existing user, reports the caught-up decay of each
\* record: decay_days equals calculate_decay(record, today).
C33_ReadsCaughtUp ==
    resp.op \in {"city_state", "register"}
    => \A b \in resp.city_state :
           b.decay_days =
               calculate_decay([last_completed_date |-> b.last_completed], resp.day)

\* C34: in every successful completion request the experience modifier is
\* keyed by the action_id of the response, the final action of the safety
\* rules for the decision of that request or NEUTRAL_WAIT on fallback, never
\* by the proposal of the model: xp_delta equals calculate_xp_gain for it.
C34_GainKeyedByFinal ==
    (resp.op = "complete_habit_endpoint" /\ resp.status = 200)
    => LET body == resp.body[1]
           row == habit_buildings[FirstBuilding(DB, resp.user, resp.habit_type)]
       IN  /\ body.building_update.xp_delta =
                  calculate_xp_gain(resp.habit_type, Some(body.action_id), BASE_XP_GAIN)
           /\ row.xp = resp.before[1].xp + body.building_update.xp_delta
           /\ (model_loaded /\ resp.fault = "none")
              => /\ last.op = "apply" /\ last.user = resp.user
                 /\ last.proposed = resp.proposed
                 /\ body.action_id = last.final
           /\ (~model_loaded \/ resp.fault = "predict")
              => body.action_id = NEUTRAL_WAIT

\* the rules replaced a proposed COMPENSATE_REWARD by NEUTRAL_WAIT and the
\* completion was granted the plain gain of 25
C34_Witness ==
    /\ resp.op = "complete_habit_endpoint" /\ resp.status = 200
    /\ model_loaded /\ resp.fault = "none"
    /\ resp.proposed = COMPENSATE_REWARD
    /\ resp.body[1].action_id = NEUTRAL_WAIT
    /\ resp.body[1].building_update.xp_delta = 25

\* entries i, i+1, i+2 of h all equal x
RunOfThree(h, i, x) == \A k \in 0..2 : h[i + k] = x

\* C35: penalties and rewards never pile up: in every reachable history,
\* also one reached by interleaved apply calls for the same user, no 3
\* consecutive entries are all SOFT_PENALTY and none are all COMPENSATE_REWARD.
C35_NoPileUp ==
    \A u \in Users, x \in {SOFT_PENALTY, COMPENSATE_REWARD} :
        \A i \in 1..(Len(Hist(Mem, u)) - 2) : ~RunOfThree(Hist(Mem, u), i, x)

----------------------------------------------------------------------------
(* Liveness *)

\* from some request on, every request of u1 proposes x with confidence >= 0.25
OnlyProposes(x) ==
    <>[][(last'.op = "apply" /\ last'.user = "u1")
         => (last'.proposed = x /\ last'.conf >= CONFIDENCE_FLOOR)]_vars

\* the request that returned last passed x through for u1
PassedThrough(x) ==
    /\ last.op = "apply" /\ last.user = "u1"
    /\ last.proposed = x /\ last.final = x /\ last.reason = "model_decision"

\* C36: no permanent suppression: if the policy proposes the same action x
\* other than NEUTRAL_WAIT for one user with confidence >= 0.25 on every
\* request forever, x is passed through as model_decision infinitely often.
C36_NoPermanentSuppression ==
    \A x \in ActionType \ {NEUTRAL_WAIT} : OnlyProposes(x) => []<>PassedThrough(x)

\* on a full history a proposal that was replaced at the request before is
\* passed through again
C36_Witness ==
    \E x \in ActionType \ {NEUTRAL_WAIT} :
        /\ PassedThrough(x)
        /\ Len(last.pre) = history_limit
        /\ last.pre[history_limit] = NEUTRAL_WAIT
        /\ last.pre[history_limit - 1] = x
        /\ last.pre[history_limit - 2] = x

----------------------------------------------------------------------------
(* Frame properties *)

\* C37: a run_inference call that returns the fallback decision because the
\* model is not loaded or predict raised adds no entry to the safety history
\* of any user.
C37_FallbackRecordsNothing ==
    [][(/\ resp'.op = "decide_action"
        /\ ~resp'.loaded \/ resp'.fault = "predict"
        /\ \E p \in ActionType, c \in InferConfs :
               DecideAction(resp'.user, resp'.fault, p, c))
       => /\ resp'.body = Some(create_fallback_response)
          /\ \A u \in Users : Hist(Mem, u)' = Hist(Mem, u)
          /\ log' = log]_vars

\* predict raised for a user whose history has entries
C37_Witness ==
    /\ resp.op = "decide_action" /\ resp.loaded /\ resp.fault = "predict"
    /\ resp.body = Some(create_fallback_response)
    /\ Len(Hist(Mem, resp.user)) >= 2

\* C38: a completion request that fails because the user has no progression
\* record for the habit leaves all state unchanged, the safety history of
\* the user included.
C38_FailedCompletionChangesNothing ==
    [][(/\ resp'.op = "complete_habit_endpoint"
        /\ resp'.status = 400 /\ resp'.detail = "building_not_found"
        /\ CompleteEndpoint(resp'.user, resp'.habit_type, resp'.fault,
                            resp'.proposed, resp'.conf, resp'.commit_ok))
       => /\ UNCHANGED <<users, habit_buildings, habit_logs>>
          /\ \A u \in Users : Hist(Mem, u)' = Hist(Mem, u)]_vars

----------------------------------------------------------------------------
(* Repeated completions *)

\* a completion succeeded on a record already completed on the same date
CompletedAgain ==
    /\ Completed
    /\ resp.before[1].last_completed_date = Some(resp.day)

\* C39: a second successful completion of the same habit by the same user on
\* the same date increases the experience again by the computed gain, with
\* the level that follows from it, while the log entries for that (user,
\* habit type, date) stay 1.
C39_SecondCompletionGrantsAgain ==
    CompletedAgain
    => LET row == habit_buildings[FirstBuilding(DB, resp.user, resp.habit_type)]
       IN  /\ resp.result.xp_delta =
                  calculate_xp_gain(resp.habit_type, resp.rl_action, BASE_XP_GAIN)
           /\ row.xp = resp.before[1].xp + resp.result.xp_delta
           /\ row.level = HighestLevel(row.xp)
           /\ resp.result.level_up = (row.level # resp.before[1].level)
           /\ Cardinality(LogsOf(resp.user, resp.habit_type, resp.day)) = 1

\* a fourth completion of the day raised the record to level 2
C39_Witness ==
    /\ CompletedAgain
    /\ resp.before[1].xp = 75 /\ resp.result.xp = 100
    /\ resp.result.level_up /\ resp.result.level = 2
    /\ Cardinality(LogsOf(resp.user, resp.habit_type, resp.day)) = 1

====
